---- MODULE Spec2Model ----
(***************************************************************************)
(* A model of the CURIA / EUR-Lex scraper (rhughes42/scraper):             *)
(*   - the orchestration engine of main.py (CuriaScraperEngine): the       *)
(*     pagination loop, the sequential and the concurrent batch processor, *)
(*     the exits of start_scraping;                                        *)
(*   - the storage layer of storage/manager.py: CheckpointData, the        *)
(*     AtomicFileWriter, the DataDeduplicator and the StorageManager.      *)
(*                                                                         *)
(* The specifications share the variables:                                 *)
(*   Spec         a scraping session of the engine, followed by a re-run   *)
(*                of the program over the same listing;                    *)
(*   SpecStore    the StorageManager driven operation by operation, with   *)
(*                the checkpoint write split into the steps of             *)
(*                AtomicFileWriter and the process allowed to crash;       *)
(*   SpecNav      navigate_with_retry;                                     *)
(*   SpecPager    the pagination loop and its next-page controls;          *)
(*   SpecUrl      the language filter and the URL deduplication;           *)
(*   SpecConfig   load_config with environment and command-line overrides; *)
(*   SpecDoc      one document: PDF generation, parsing, saving;           *)
(*   SpecProgress update_page_progress and its checkpoint cadence;         *)
(*   SpecPool     the browser pool, create_page and the page's life;       *)
(*   SpecSitemap  generate_sitemap of simple_sitemap.py;                   *)
(*   SpecCrawl    the pagination loop over a listing of finitely many      *)
(*                pages.                                                   *)
(***************************************************************************)
EXTENDS Integers, Sequences, FiniteSets, TLC

VARIABLES
    world,            \* the listing being crawled and the configuration (fixed)
    run,              \* 1: first run of the program, 2: the re-run
    pc,               \* where start_scraping is
    exit_kind,        \* how start_scraping ended
    st,               \* StorageManager: checkpoint_data, hashes, metadata_dir, errors_dir
    checkpoint_file,  \* the checkpoint file at its final path
    summary_file,     \* session_summary.json
    loc,              \* locals of _process_listing_pages and of the batch processor
    ghost,            \* history, read only by the properties
    tmp_file,         \* the checkpoint's .tmp file (SpecStore)
    wpc,              \* position of save_checkpoint inside AtomicFileWriter (SpecStore)
    up,               \* is the process alive (SpecStore)
    ret               \* what the last StorageManager call returned (SpecStore)

vars == <<world, run, pc, exit_kind, st, checkpoint_file, summary_file, loc,
          ghost, tmp_file, wpc, up, ret>>

engineVars == <<world, run, pc, exit_kind, loc, ghost, summary_file>>
storeVars == <<tmp_file, wpc, up, ret>>

----------------------------------------------------------------------------
(* Bounds of the model *)

MaxDocs == 3        \* documents on the listing

\* Python's None, where an int or None is expected (a doc_id, max_documents)
None == -1

\* the listing pages; the next-page control is absent on the last one
Pages == {1, 2}
NumPages == 2

\* max_documents: None, 0, and every ceiling that can bind on MaxDocs documents
CeilingValues == {None} \cup (0 .. MaxDocs - 1)


\* concurrent_pages: 1 is sequential mode, 2 is parallel mode with a gate of 2
ConcurrentPagesValues == {1, 2}

\* the program is run, ends, and is run once more over the same listing
Runs == {1, 2}

Docs == 1 .. MaxDocs

\* How a document's URL carries its identity: docid=<n>, CELEX:<id>, neither.
\* A document's URL has a docid parameter or not; of those without one, the
\* odd ones are EUR-Lex URLs with a CELEX identifier, the even ones have none
Kinds == {"docid", "celex", "url"}
NoDocidKind(d) == IF d % 2 = 1 THEN "celex" ELSE "url"

\* What happens when a document is fetched: it is saved, or navigation fails
Outcomes == {"ok", "fail"}

\* "if x" of Python for Optional[int]
Truthy(x) == x # None /\ x # 0

EmptyMap == [x \in {} |-> 0]

Put(f, k, v) == [x \in DOMAIN f \cup {k} |-> IF x = k THEN v ELSE f[x]]

Min(a, b) == IF a <= b THEN a ELSE b

RECURSIVE SetToSeq(_)
\* list(a_set): the elements in some order; the ascending one is taken
SetToSeq(S) ==
    IF S = {} THEN <<>>
    ELSE LET m == CHOOSE x \in S : \A y \in S : x <= y
         IN <<m>> \o SetToSeq(S \ {m})

SeqToSet(q) == {q[k] : k \in DOMAIN q}

----------------------------------------------------------------------------
(* URLs and document identity (main.py) *)

\* The link of document d as _extract_document_links returns it
Link(d) == [kind |-> world.kind[d], key |-> d]

\* re.search(r"docid=(\d+)", url): the docid parameter, None without one
extract_doc_id_from_url(url) == IF url.kind = "docid" THEN url.key ELSE None

\* The links of listing page p, in page order
PageLinks(p) ==
    LET RECURSIVE Up(_)
        Up(d) == IF d > MaxDocs THEN <<>>
                 ELSE (IF world.pageOf[d] = p THEN <<Link(d)>> ELSE <<>>) \o Up(d + 1)
    IN Up(1)

----------------------------------------------------------------------------
(* CheckpointData (storage/manager.py) *)

FreshCheckpoint(session_id) ==
    [session_id |-> session_id, processed_pages |-> 0, processed_documents |-> 0,
     processed_doc_ids |-> {}, errors_count |-> 0]

\* CheckpointData.to_dict: the set goes out as a list
to_dict(cd) ==
    [session_id |-> cd.session_id, processed_pages |-> cd.processed_pages,
     processed_documents |-> cd.processed_documents,
     processed_doc_ids |-> SetToSeq(cd.processed_doc_ids),
     errors_count |-> cd.errors_count]

\* CheckpointData.from_dict: the list comes back as a set
from_dict(data) ==
    [session_id |-> data.session_id, processed_pages |-> data.processed_pages,
     processed_documents |-> data.processed_documents,
     processed_doc_ids |-> SeqToSet(data.processed_doc_ids),
     errors_count |-> data.errors_count]

\* A file: absent, a complete JSON document, a file just opened for writing
\* (empty), a JSON document cut short (partial), content that json.load
\* rejects (unparsable), JSON that CheckpointData(**data) rejects
\* (missing_fields), or a file that open() refuses (unreadable)
Absent == [kind |-> "absent"]
JsonFile(data) == [kind |-> "json", data |-> data]
PartialFile(data) == [kind |-> "partial", data |-> data]
CorruptKinds == {"empty", "partial", "unparsable", "missing_fields", "unreadable"}

IsValidFile(f) == f.kind = "json"

\* self.checkpoint_data: None is <<>>, a CheckpointData cd is <<cd>>
NoCheckpoint == <<>>

----------------------------------------------------------------------------
(* DataDeduplicator (storage/manager.py) *)

\* hashlib.sha256 of json.dumps(metadata_dict, sort_keys=True): the digest of
\* the fields in key order; distinct serialisations have distinct digests
Hash(metadata) ==
    <<"sha256", metadata.doc_id, metadata.extracted_at, metadata.processing_method,
      metadata.url>>

is_duplicate_any_name(hashes, filename, content_hash) ==
    \E n \in DOMAIN hashes : hashes[n] = content_hash

is_duplicate(hashes, filename, content_hash) ==
    IF filename \in DOMAIN hashes THEN hashes[filename] = content_hash ELSE FALSE

register_file(hashes, filename, content_hash) == Put(hashes, filename, content_hash)

----------------------------------------------------------------------------
(* StorageManager (storage/manager.py); s is the manager's state *)

MetaName(doc_index) == <<"doc", doc_index>>
ErrorName(doc_index) == <<"error", doc_index>>

is_document_processed_never(cd, doc_id) == FALSE

is_document_processed(cd, doc_id) ==
    IF cd # NoCheckpoint THEN doc_id \in cd[1].processed_doc_ids ELSE FALSE

save_error_info_nothing(s, doc_index, url, error_message) == s

\* save_error_info: the error file of that index is written (a failure to
\* write it is logged and swallowed)
save_error_info(s, doc_index, url, error_message) ==
    [s EXCEPT !.errors_dir =
        Put(@, ErrorName(doc_index),
            [doc_index |-> doc_index, url |-> url, error |-> error_message])]

record_document_uncounted(cd, doc_id) ==
    [cd EXCEPT !.processed_doc_ids = @ \cup {doc_id}]

record_document_forgetting(cd, doc_id) ==
    [cd EXCEPT !.processed_documents = @ + 1, !.processed_doc_ids = {doc_id}]

\* The checkpoint update of save_document_metadata: one more document, its
\* doc_id into the set
record_document(cd, doc_id) ==
    [cd EXCEPT !.processed_documents = @ + 1,
               !.processed_doc_ids = @ \cup {doc_id}]

\* save_error_info as save_document_metadata's handler calls it: its own
\* write is in a try whose handler only logs, so a failed write (err_ok
\* false) leaves no error file and raises nothing
save_error_info_try(s, doc_index, url, error_message, err_ok) == IF err_ok THEN save_error_info(s, doc_index, url, error_message) ELSE s

\* the checkpoint updated before the file is written: a failed write leaves
\* the document counted
save_document_metadata_counting_first(s, metadata, doc_index, io_ok, err_ok) ==
    LET filename == MetaName(doc_index)
        content_hash == Hash(metadata)
        cd == s.checkpoint_data
        counted == cd # NoCheckpoint /\ metadata.doc_id # None
        s1 == [s EXCEPT !.checkpoint_data =
                   IF counted THEN <<record_document(cd[1], metadata.doc_id)>> ELSE cd]
    IN IF is_duplicate(s.hashes, filename, content_hash)
       THEN [s |-> s, raised |-> FALSE, wrote |-> FALSE]
       ELSE IF ~io_ok
       THEN [s |-> save_error_info_try(s1, doc_index, metadata.url, "write failed", err_ok),
             raised |-> TRUE, wrote |-> FALSE]
       ELSE [s |-> [s1 EXCEPT !.metadata_dir = Put(@, filename, metadata),
                              !.hashes = register_file(@, filename, content_hash)],
             raised |-> FALSE, wrote |-> TRUE]

\* save_document_metadata(metadata, doc_index), compress = False.
\* io_ok: does writing the file succeed; err_ok: does writing the error file
\* succeed, when the handler calls save_error_info.  Gives the new state, whether the
\* call raised and whether the file was written.
save_document_metadata(s, metadata, doc_index, io_ok, err_ok) ==
    LET filename == MetaName(doc_index)
        content_hash == Hash(metadata)
    IN IF is_duplicate(s.hashes, filename, content_hash)
       THEN [s |-> s, raised |-> FALSE, wrote |-> FALSE]
       ELSE IF ~io_ok
       THEN [s |-> save_error_info_try(s, doc_index, metadata.url, "write failed", err_ok),
             raised |-> TRUE, wrote |-> FALSE]
       ELSE LET cd == s.checkpoint_data
                counted == cd # NoCheckpoint /\ metadata.doc_id # None
            IN [s |-> [s EXCEPT
                    !.metadata_dir = Put(@, filename, metadata),
                    !.hashes = register_file(@, filename, content_hash),
                    !.checkpoint_data =
                        IF counted
                        THEN <<record_document(cd[1], metadata.doc_id)>>
                        ELSE cd],
                raised |-> FALSE, wrote |-> TRUE]

\* update_page_progress without its save (the save is the caller's step)
update_page_progress(s, page_num, current_url) ==
    IF s.checkpoint_data # NoCheckpoint
    THEN [s EXCEPT !.checkpoint_data[1].processed_pages = page_num]
    ELSE s

\* create_session_summary: what the summary file holds
Summary(s) ==
    [pages_processed |-> s.checkpoint_data[1].processed_pages,
     documents_processed |-> s.checkpoint_data[1].processed_documents,
     errors_count |-> s.checkpoint_data[1].errors_count,
     unique_documents |-> Cardinality(s.checkpoint_data[1].processed_doc_ids),
     metadata_files |-> Cardinality(DOMAIN s.metadata_dir),
     error_files |-> Cardinality(DOMAIN s.errors_dir)]

\* save_checkpoint as one step: the file after it (AtomicFileWriter moves the
\* temporary file into place only when the write succeeded)
save_checkpoint(s, file, io_ok) ==
    IF s.checkpoint_data # NoCheckpoint /\ io_ok
    THEN JsonFile(to_dict(s.checkpoint_data[1]))
    ELSE file

initialize_session_raising(file, session_id) ==
    IF IsValidFile(file)
    THEN [cd |-> <<from_dict(file.data)>>, ret |-> from_dict(file.data).session_id,
          raised |-> FALSE, fresh |-> FALSE]
    ELSE IF file.kind = "absent"
    THEN [cd |-> <<FreshCheckpoint(session_id)>>, ret |-> session_id,
          raised |-> FALSE, fresh |-> TRUE]
    ELSE [cd |-> NoCheckpoint, ret |-> session_id, raised |-> TRUE, fresh |-> FALSE]

\* initialize_session(session_id): the checkpoint it leaves in memory, what it
\* returns, whether it raised, and whether a fresh session was created (which
\* is then saved).  A file that exists and fails json.load or from_dict falls
\* through to the fresh session.
initialize_session(file, session_id) ==
    IF IsValidFile(file)
    THEN [cd |-> <<from_dict(file.data)>>, ret |-> from_dict(file.data).session_id,
          raised |-> FALSE, fresh |-> FALSE]
    ELSE [cd |-> <<FreshCheckpoint(session_id)>>, ret |-> session_id,
          raised |-> FALSE, fresh |-> TRUE]

----------------------------------------------------------------------------
(* The document processor (main.py) *)

\* parser.parse_document(html, url, doc_id, processing_method): the record
\* keeps the doc_id it is given; extracted_at is the clock
parse_document(url, doc_id, processing_method, t) ==
    [doc_id |-> doc_id, url |-> url, processing_method |-> processing_method,
     extracted_at |-> t]

\* _process_single_document(doc_link, doc_index): navigation fails and raises,
\* or the page is parsed and the record saved
process_single_document(s, doc_link, doc_index, outcome, t) ==
    LET doc_id == extract_doc_id_from_url(doc_link)
    IN IF outcome = "fail"
       THEN [s |-> s, raised |-> TRUE, error |-> "Failed to navigate to document"]
       ELSE LET metadata == parse_document(doc_link, doc_id, "html_extraction", t)
                r == save_document_metadata(s, metadata, doc_index, TRUE, TRUE)
            IN [s |-> r.s, raised |-> r.raised, error |-> "write failed"]

SeqIter_abort_on_failure(s, links, start_index, maxd, i, processed_count, outcome, t) ==
    LET doc_link == links[i]
        doc_index == start_index + i
        doc_id == extract_doc_id_from_url(doc_link)
    IN IF doc_id # None /\ is_document_processed(s.checkpoint_data, doc_id)
       THEN [act |-> "skip", s |-> s, processed_count |-> processed_count]
       ELSE IF Truthy(maxd) /\ processed_count >= maxd
       THEN [act |-> "break", s |-> s, processed_count |-> processed_count]
       ELSE LET r == process_single_document(s, doc_link, doc_index, outcome, t)
            IN IF r.raised
               THEN [act |-> "break",
                     s |-> save_error_info(r.s, doc_index, doc_link, r.error),
                     processed_count |-> processed_count]
               ELSE [act |-> "dispatch", s |-> r.s,
                     processed_count |-> processed_count + 1]

\* One iteration of the loop of _process_documents_sequential, for the i-th
\* link (i from 1; the code's doc_index is start_index + i0 + 1 with i0 = i-1)
SeqIter(s, links, start_index, maxd, i, processed_count, outcome, t) ==
    LET doc_link == links[i]
        doc_index == start_index + i
        doc_id == extract_doc_id_from_url(doc_link)
    IN IF doc_id # None /\ is_document_processed(s.checkpoint_data, doc_id)
       THEN [act |-> "skip", s |-> s, processed_count |-> processed_count]
       ELSE IF Truthy(maxd) /\ processed_count >= maxd
       THEN [act |-> "break", s |-> s, processed_count |-> processed_count]
       ELSE LET r == process_single_document(s, doc_link, doc_index, outcome, t)
            IN IF r.raised
               THEN [act |-> "dispatch",
                     s |-> save_error_info(r.s, doc_index, doc_link, r.error),
                     processed_count |-> processed_count]
               ELSE [act |-> "dispatch", s |-> r.s,
                     processed_count |-> processed_count + 1]

RECURSIVE SeqRun(_, _, _, _, _, _, _)
\* _process_documents_sequential run from its i-th link to its return: the
\* final state and the count returned
SeqRun(s, links, start_index, maxd, i, processed_count, t) ==
    IF i > Len(links)
    THEN [s |-> s, processed_count |-> processed_count]
    ELSE LET r == SeqIter(s, links, start_index, maxd, i, processed_count,
                          world.outcome[links[i].key], t)
         IN IF r.act = "break"
            THEN [s |-> r.s, processed_count |-> r.processed_count]
            ELSE SeqRun(r.s, links, start_index, maxd, i + 1, r.processed_count, t)

RECURSIVE CreateTasks(_, _, _, _, _, _)
\* The task-creating loop of _process_documents_concurrent from its i-th
\* link: the tasks created, each with its link, its doc_index and the place
\* li of its link in document_links
CreateTasks(cd, links, start_index, maxd, i, tasks) ==
    IF i > Len(links) THEN tasks
    ELSE LET doc_link == links[i]
             doc_index == start_index + i
             doc_id == extract_doc_id_from_url(doc_link)
         IN IF doc_id # None /\ is_document_processed(cd, doc_id)
            THEN CreateTasks(cd, links, start_index, maxd, i + 1, tasks)
            ELSE IF Truthy(maxd) /\ Len(tasks) >= maxd
            THEN tasks
            ELSE CreateTasks(cd, links, start_index, maxd, i + 1,
                     Append(tasks, [link |-> doc_link, doc_index |-> doc_index,
                                    li |-> i, state |-> "pending"]))

\* the "unknown" that stands for a URL that is not there
UnknownUrl == [kind |-> "unknown", key |-> 0]

RECURSIVE LogExceptions(_, _, _, _, _)
\* The loop over the results of gather: for the k-th result that is an
\* exception, save_error_info(start_index + k0 + 1, document_links[k0], ...)
LogExceptions(s, tasks, links, start_index, k) ==
    IF k > Len(tasks) THEN s
    ELSE LogExceptions(
            IF tasks[k].state = "exc"
            THEN save_error_info(s, start_index + k,
                                 IF k <= Len(links) THEN links[k] ELSE UnknownUrl,
                                 "Failed to navigate to document")
            ELSE s,
            tasks, links, start_index, k + 1)

CountState(tasks, state) == Cardinality({k \in DOMAIN tasks : tasks[k].state = state})

\* cleanup_session: save_checkpoint, then create_session_summary; disk_ok:
\* do the writes succeed
cleanup_session(s, file, summary, disk_ok) ==
    [file |-> save_checkpoint(s, file, disk_ok),
     summary |-> IF s.checkpoint_data # NoCheckpoint /\ disk_ok
                 THEN JsonFile(Summary(s)) ELSE summary]

PersistEvery == 5

persist_due_every_page(page_num) == page_num % 1 = 0

\* The test of update_page_progress before its save_checkpoint:
\* "if page_num % 5 == 0"
persist_due(page_num) == page_num % PersistEvery = 0

----------------------------------------------------------------------------
(* The engine: start_scraping and _process_listing_pages (main.py) *)

\* In a session of the engine the disk takes every write (the failing and the
\* interrupted write are SpecStore's subject)
DiskOk == TRUE

InitLoc ==
    [page_num |-> 0, total_processed |-> 0, document_links |-> <<>>, i |-> 0,
     processed_count |-> 0, tasks |-> <<>>]

InitStore == [checkpoint_data |-> NoCheckpoint, hashes |-> EmptyMap,
              metadata_dir |-> EmptyMap, errors_dir |-> EmptyMap]

\* History: the documents dispatched in this run, in order; what became of
\* each link of the current batch; the manager's state when the batch began;
\* whether cleanup_session ran in this run and whether its writes succeeded;
\* whether this run took one of the max_documents breaks; the first run's end;
\* (SpecStore) the file and the state of the last save_checkpoint that completed
InitGhost ==
    [dispatched |-> <<>>, doc_indexes |-> <<>>, batch |-> <<>>, batch_start |-> InitStore,
     flush |-> "none", ceiling_stop |-> FALSE,
     persisted |-> [file |-> Absent, cd |-> NoCheckpoint],
     run1 |-> [exit_kind |-> "none", flush |-> "none", ceiling_stop |-> FALSE,
               completed |-> {}, documents |-> 0, dispatched |-> <<>>]]

Worlds ==
    {w \in [pageOf : [Docs -> Pages], kind : [Docs -> Kinds],
            outcome : [Docs -> Outcomes],
            max_documents : CeilingValues,
            concurrent_pages : ConcurrentPagesValues] :
        \A d \in Docs :
            /\ d + 1 \in Docs => w.pageOf[d] <= w.pageOf[d + 1]
            /\ w.kind[d] \in {"docid", NoDocidKind(d)}}

Init ==
    /\ world \in Worlds
    /\ run = 1
    /\ pc = "idle"
    /\ exit_kind = "none"
    /\ st = InitStore
    /\ checkpoint_file = Absent
    /\ summary_file = Absent
    /\ loc = InitLoc
    /\ ghost = InitGhost
    /\ tmp_file = Absent
    /\ wpc = "idle"
    /\ up = TRUE
    /\ ret \in {[op |-> "none", resume |-> resume] : resume \in BOOLEAN}

SessionId(r) == <<"session", r>>

\* datetime.now(): the two runs of the program happen at different times
Clock == run

\* start_scraping up to the browser: storage.initialize_session()
\* start_scraping(resume, max_documents), its first statement:
\* self.storage.initialize_session(); the parameter resume is read nowhere
start_scraping_session(resume, file, session_id) == initialize_session(file, session_id)

StartScraping ==
    /\ pc = "idle"
    /\ LET r == start_scraping_session(ret.resume, checkpoint_file, SessionId(run))
           s1 == [st EXCEPT !.checkpoint_data = r.cd]
       IN /\ st' = s1
          /\ checkpoint_file' =
                IF r.fresh THEN save_checkpoint(s1, checkpoint_file, DiskOk)
                ELSE checkpoint_file
    /\ pc' = "navigate"
    /\ UNCHANGED <<world, run, exit_kind, summary_file, loc, ghost, storeVars>>

\* _emergency_shutdown, as both except clauses of start_scraping call it
EmergencyShutdown(kind) ==
    LET c == cleanup_session(st, checkpoint_file, summary_file, DiskOk)
    IN /\ checkpoint_file' = c.file
       /\ summary_file' = c.summary
       /\ ghost' = [ghost EXCEPT !.flush = "ok"]
       /\ pc' = "exited"
       /\ exit_kind' = kind

\* The head of _process_listing_pages: create_page and navigate_with_retry to
\* the listing URL; a failure raises, which start_scraping's except Exception
\* answers with _emergency_shutdown and a re-raise
NavigateListing ==
    /\ pc = "navigate"
    /\ \/ /\ pc' = "extract"
          /\ loc' = [InitLoc EXCEPT !.page_num = 1]
          /\ UNCHANGED <<exit_kind, checkpoint_file, summary_file, ghost>>
       \/ /\ EmergencyShutdown("fatal")
          /\ UNCHANGED loc
    /\ UNCHANGED <<world, run, st, storeVars>>

\* The top of the while loop: _extract_document_links, the break on an empty
\* page, and the entry of _process_document_batch (in parallel mode the
\* tasks are created before the first await)
ExtractLinks ==
    /\ pc = "extract"
    /\ LET links == PageLinks(loc.page_num)
           tasks == CreateTasks(st.checkpoint_data, links, loc.total_processed,
                                world.max_documents, 1, <<>>)
           conc == world.concurrent_pages > 1
           Fate(i) ==
               IF \E k \in DOMAIN tasks : tasks[k].li = i THEN "dispatched"
               ELSE IF extract_doc_id_from_url(links[i]) # None
                       /\ is_document_processed(st.checkpoint_data,
                                                extract_doc_id_from_url(links[i]))
               THEN "skipped" ELSE "cut"
       IN IF links = <<>>
          THEN /\ pc' = "finalize"
               /\ UNCHANGED <<loc, ghost>>
          ELSE /\ pc' = IF conc THEN "conc" ELSE "seq"
               /\ loc' = [loc EXCEPT !.document_links = links, !.i = 1,
                                     !.processed_count = 0,
                                     !.tasks = IF conc THEN tasks ELSE <<>>]
               /\ ghost' = [ghost EXCEPT
                    !.batch = IF conc THEN [i \in DOMAIN links |-> Fate(i)]
                              ELSE [i \in DOMAIN links |-> "pending"],
                    !.dispatched = IF conc
                                   THEN @ \o [k \in DOMAIN tasks |-> tasks[k].link.key]
                                   ELSE @,
                    !.doc_indexes = IF conc
                                    THEN @ \o [k \in DOMAIN tasks |-> tasks[k].doc_index]
                                    ELSE @,
                    !.ceiling_stop = @ \/ (conc /\ \E i \in DOMAIN links : Fate(i) = "cut"),
                    !.batch_start = st]
    /\ UNCHANGED <<world, run, exit_kind, st, checkpoint_file, summary_file,
                   storeVars>>

\* One iteration of the for loop of _process_documents_sequential, or its
\* return when the links are exhausted
SeqStep ==
    /\ pc = "seq"
    /\ IF loc.i > Len(loc.document_links)
       THEN /\ pc' = "after"
            /\ UNCHANGED <<st, loc, ghost>>
       ELSE LET key == loc.document_links[loc.i].key
                r == SeqIter(st, loc.document_links, loc.total_processed,
                             world.max_documents, loc.i, loc.processed_count,
                             world.outcome[key], Clock)
            IN /\ st' = r.s
               /\ pc' = IF r.act = "break" THEN "after" ELSE "seq"
               /\ loc' = [loc EXCEPT !.i = IF r.act = "break" THEN @ ELSE @ + 1,
                                     !.processed_count = r.processed_count]
               /\ ghost' = [ghost EXCEPT
                    !.batch = [i \in DOMAIN @ |->
                                 IF i = loc.i
                                 THEN (CASE r.act = "skip" -> "skipped"
                                         [] r.act = "dispatch" -> "dispatched"
                                         [] OTHER -> "cut")
                                 ELSE IF i > loc.i /\ r.act = "break" THEN "cut"
                                 ELSE @[i]],
                    !.dispatched = IF r.act = "dispatch" THEN Append(@, key) ELSE @,
                    !.doc_indexes = IF r.act = "dispatch"
                                    THEN Append(@, loc.total_processed + loc.i) ELSE @,
                    !.ceiling_stop = @ \/ r.act = "break"]
    /\ UNCHANGED <<world, run, exit_kind, checkpoint_file, summary_file, storeVars>>

semaphore_never_locked(tasks, value) == CountState(tasks, "running") <= Len(tasks)

\* asyncio.Semaphore(concurrent_pages): acquire() goes through while fewer
\* than its value hold it; the holders are the tasks inside "async with"
semaphore_free(tasks, value) == CountState(tasks, "running") < value

\* A task passes "async with semaphore": tasks are woken in the order they
\* were created, and at most concurrent_pages hold the semaphore
TaskStart ==
    /\ pc = "conc"
    /\ semaphore_free(loc.tasks, world.concurrent_pages)
    /\ \E k \in DOMAIN loc.tasks :
        /\ loc.tasks[k].state = "pending"
        /\ \A j \in 1 .. k - 1 : loc.tasks[j].state # "pending"
        /\ loc' = [loc EXCEPT !.tasks[k].state = "running"]
    /\ UNCHANGED <<world, run, pc, exit_kind, st, checkpoint_file, summary_file,
                   ghost, storeVars>>

\* A running task ends: _process_single_document returns or raises
TaskFinish ==
    /\ pc = "conc"
    /\ \E k \in DOMAIN loc.tasks :
        /\ loc.tasks[k].state = "running"
        /\ LET tk == loc.tasks[k]
               r == process_single_document(st, tk.link, tk.doc_index,
                                            world.outcome[tk.link.key], Clock)
           IN /\ st' = r.s
              /\ loc' = [loc EXCEPT !.tasks[k].state = IF r.raised THEN "exc" ELSE "ok"]
    /\ UNCHANGED <<world, run, pc, exit_kind, checkpoint_file, summary_file, ghost,
                   storeVars>>

\* gather has every result: the count, and the loop that logs the exceptions
Gather ==
    /\ pc = "conc"
    /\ \A k \in DOMAIN loc.tasks : loc.tasks[k].state \in {"ok", "exc"}
    /\ st' = LogExceptions(st, loc.tasks, loc.document_links, loc.total_processed, 1)
    /\ loc' = [loc EXCEPT !.processed_count = CountState(loc.tasks, "ok")]
    /\ pc' = "after"
    /\ UNCHANGED <<world, run, exit_kind, checkpoint_file, summary_file, ghost,
                   storeVars>>

\* The rest of the loop body after _process_document_batch returned:
\* total_processed, update_page_progress (with its save every 5 pages), the
\* max_documents break, _navigate_to_next_page and page_num += 1
AfterBatch ==
    /\ pc = "after"
    /\ LET total == loc.total_processed + loc.processed_count
           s1 == update_page_progress(st, loc.page_num, loc.page_num)
           limit == Truthy(world.max_documents) /\ total >= world.max_documents
           more == loc.page_num < NumPages
       IN /\ st' = s1
          /\ checkpoint_file' =
                IF persist_due(loc.page_num)
                THEN save_checkpoint(s1, checkpoint_file, DiskOk) ELSE checkpoint_file
          /\ loc' = [loc EXCEPT !.total_processed = total,
                                !.page_num = IF ~limit /\ more THEN @ + 1 ELSE @]
          /\ pc' = IF ~limit /\ more THEN "extract" ELSE "finalize"
          /\ ghost' = [ghost EXCEPT !.ceiling_stop = @ \/ limit]
    /\ UNCHANGED <<world, run, exit_kind, summary_file, storeVars>>

\* _finalize_session: cleanup_session, then start_scraping returns
Finalize ==
    /\ pc = "finalize"
    /\ LET c == cleanup_session(st, checkpoint_file, summary_file, DiskOk)
       IN /\ checkpoint_file' = c.file
          /\ summary_file' = c.summary
          /\ ghost' = [ghost EXCEPT !.flush = "ok"]
    /\ pc' = "exited"
    /\ exit_kind' = "normal"
    /\ UNCHANGED <<world, run, st, loc, storeVars>>

Running == pc \in {"navigate", "extract", "seq", "conc", "after", "finalize"}

\* Ctrl-C while start_scraping runs under asyncio.run (main.py:678).  Raised
\* inside the coroutine's own code it is a KeyboardInterrupt, which the
\* except clause at main.py:105 answers with _emergency_shutdown
InterruptKeyboard ==
    /\ Running
    /\ EmergencyShutdown("interrupted")
    /\ UNCHANGED <<world, run, st, loc, storeVars>>

\* Ctrl-C delivered by asyncio.run as a cancellation of the main task: a
\* CancelledError is raised at the await where the coroutine is suspended; it
\* is a BaseException that neither except clause of start_scraping names
InterruptCancelled ==
    /\ Running
    /\ pc' = "exited"
    /\ exit_kind' = "cancelled"
    /\ UNCHANGED <<world, run, st, checkpoint_file, summary_file, loc, ghost,
                   storeVars>>

main_exit_code_inverted(how) == IF how = "Exception" THEN 0 ELSE 1

\* The try of main() around the engine's construction and asyncio.run: the
\* code the process exits with when that block returns, raises
\* KeyboardInterrupt or raises an Exception
main_exit_code(how) ==
    CASE how = "returns" -> 0
      [] how = "KeyboardInterrupt" -> 0
      [] how = "Exception" -> 1

\* How asyncio.run(start_scraping()) ends for main(): start_scraping returns
\* after a normal end and after the KeyboardInterrupt it caught itself; it
\* re-raises the fatal Exception; a cancelled main task makes asyncio.run
\* raise KeyboardInterrupt
asyncio_run(kind) ==
    CASE kind \in {"normal", "interrupted"} -> "returns"
      [] kind = "cancelled" -> "KeyboardInterrupt"
      [] kind = "fatal" -> "Exception"

\* CuriaScraperEngine(args.config) raises (the configuration cannot be
\* loaded, the output directory cannot be made): main() exits
ConstructionFails ==
    /\ pc = "idle"
    /\ pc' = "terminated"
    /\ exit_kind' = "construction_failed"
    /\ ret' = [op |-> "exit", code |-> main_exit_code("Exception")]
    /\ UNCHANGED <<world, run, st, checkpoint_file, summary_file, loc, ghost,
                   tmp_file, wpc, up>>

\* start_scraping has ended: main() ends the process
MainExit ==
    /\ pc = "exited"
    /\ pc' = "terminated"
    /\ ret' = [op |-> "exit", code |-> main_exit_code(asyncio_run(exit_kind))]
    /\ UNCHANGED <<world, run, exit_kind, st, checkpoint_file, summary_file, loc,
                   ghost, tmp_file, wpc, up>>

\* The program, having run to completion, is run again over the same listing
\* and output directory: a new process, whose DataDeduplicator loads the hashes
\* the last one saved
Restart ==
    /\ pc = "terminated"
    /\ exit_kind = "normal"
    /\ run = 1
    /\ run' = 2
    /\ pc' = "idle"
    /\ exit_kind' = "none"
    /\ st' = [st EXCEPT !.checkpoint_data = NoCheckpoint]
    /\ loc' = InitLoc
    /\ ghost' = [InitGhost EXCEPT
            !.run1 = [exit_kind |-> exit_kind, flush |-> ghost.flush,
                      ceiling_stop |-> ghost.ceiling_stop,
                      completed |-> {ghost.dispatched[k] : k \in
                                        {j \in DOMAIN ghost.dispatched :
                                            world.outcome[ghost.dispatched[j]] = "ok"}},
                      documents |-> st.checkpoint_data[1].processed_documents,
                      dispatched |-> ghost.dispatched]]
    /\ \E resume \in BOOLEAN : ret' = [op |-> "none", resume |-> resume]
    /\ UNCHANGED <<world, checkpoint_file, summary_file, tmp_file, wpc, up>>

Next ==
    \/ StartScraping
    \/ NavigateListing
    \/ ExtractLinks
    \/ SeqStep
    \/ TaskStart
    \/ TaskFinish
    \/ Gather
    \/ AfterBatch
    \/ Finalize
    \/ InterruptKeyboard
    \/ InterruptCancelled
    \/ ConstructionFails
    \/ MainExit
    \/ Restart

Spec == Init /\ [][Next]_vars

----------------------------------------------------------------------------
(* Properties of a session (Spec) *)

DispatchedSet == {ghost.dispatched[k] : k \in DOMAIN ghost.dispatched}

\* The places of the current batch's links that a predicate holds of
BatchWhere(fate) == {i \in DOMAIN ghost.batch : ghost.batch[i] = fate}

BatchDone == pc = "after"

\* C1: Resume does not reprocess.  After a first run that ended normally and
\* persisted its checkpoint, the re-run dispatches no document that the first
\* run completed, whether the document's identity is a docid parameter, a
\* CELEX identifier or the full URL.
C1_ResumeDoesNotReprocess ==
    run = 2 => DispatchedSet \cap ghost.run1.completed = {}

\* C2: Resume keeps the count (as claimed).  When the re-run has ended
\* normally, the checkpoint's processed document count is the count the first,
\* uninterrupted run ended with.
C2_ResumeKeepsCount ==
    (run = 2 /\ pc = "exited" /\ exit_kind = "normal")
        => /\ st.checkpoint_data[1].processed_documents = ghost.run1.documents
           /\ checkpoint_file.data.processed_documents = ghost.run1.documents

\* C2, amended: the same, for a first run that was not stopped by the
\* max_documents ceiling (it took none of the ceiling's breaks), each document
\* having the same outcome in both runs.
C2_ResumeKeepsCountUncut ==
    (run = 2 /\ pc = "exited" /\ exit_kind = "normal" /\ ~ghost.run1.ceiling_stop)
        => /\ st.checkpoint_data[1].processed_documents = ghost.run1.documents
           /\ checkpoint_file.data.processed_documents = ghost.run1.documents

\* C2, witness: a re-run ended normally after an uncut first run that had
\* counted a document, and the re-run met a link it skipped
C2_Witness ==
    /\ run = 2 /\ pc = "exited" /\ exit_kind = "normal"
    /\ ~ghost.run1.ceiling_stop
    /\ ghost.run1.documents >= 1
    /\ BatchWhere("skipped") # {}

\* C3: Global document ceiling.  With max_documents = M (M >= 1) the number of
\* documents dispatched in a session, over all its listing pages, is at most M
\* at every point.
C3_GlobalCeiling ==
    world.max_documents >= 1 => Len(ghost.dispatched) <= world.max_documents

\* C4: Ceiling on one page.  For the first batch of a fresh session (running
\* total 0, no link processed yet), n links and a ceiling M >= 1, exactly
\* min(n, M) documents are dispatched, in both modes and whatever the
\* documents' outcomes.
C4_CeilingOnOnePage ==
    (run = 1 /\ BatchDone /\ loc.total_processed = 0 /\ world.max_documents >= 1
        /\ Len(ghost.dispatched) = Cardinality(BatchWhere("dispatched")))
        => Cardinality(BatchWhere("dispatched"))
             = Min(Len(loc.document_links), world.max_documents)

\* C5: Per-document isolation.  When a batch returns, in either mode: every
\* link was dispatched, or skipped as already processed, or left out by the
\* max_documents ceiling with at least M documents dispatched before it (so no
\* failure of an earlier document kept it from being dispatched); the count
\* returned is the number of dispatched documents that did not raise; and the
\* session never ends fatally once a batch has dispatched a document.
C5_PerDocumentIsolation ==
    /\ BatchDone =>
        /\ \A i \in DOMAIN ghost.batch :
            \/ ghost.batch[i] \in {"dispatched", "skipped"}
            \/ /\ ghost.batch[i] = "cut"
               /\ Truthy(world.max_documents)
               /\ Cardinality({j \in BatchWhere("dispatched") : j < i})
                    >= world.max_documents
        /\ loc.processed_count =
             Cardinality({i \in BatchWhere("dispatched") :
                            world.outcome[loc.document_links[i].key] = "ok"})
    /\ exit_kind = "fatal" => ghost.dispatched = <<>>

\* C5, witness: a batch returned in which a document failed and a later
\* document of the same batch was dispatched and succeeded
C5_Witness ==
    /\ BatchDone
    /\ \E i, j \in BatchWhere("dispatched") :
        /\ i < j
        /\ world.outcome[loc.document_links[i].key] = "fail"
        /\ world.outcome[loc.document_links[j].key] = "ok"

\* C7: Checkpoint flushed on every exit.  Whenever start_scraping has ended
\* after the session was initialised (normally, by an exception or by a user
\* interrupt), cleanup_session has run: the checkpoint file holds the
\* in-memory checkpoint and the session summary is written.
C7_FlushedOnEveryExit ==
    pc = "exited" =>
        /\ ghost.flush = "ok"
        /\ checkpoint_file = JsonFile(to_dict(st.checkpoint_data[1]))
        /\ summary_file = JsonFile(Summary(st))

\* C10: Mode equivalence.  When the parallel batch processor returns, the
\* manager's state (checkpoint counters and ID set, metadata files, error
\* files, dedup index) and the count returned are those the sequential
\* processor produces from the same links, the same starting state and the
\* same per-document outcomes, whatever the interleaving of the tasks.
C10_ModeEquivalence ==
    (BatchDone /\ world.concurrent_pages > 1) =>
        LET q == SeqRun(ghost.batch_start, loc.document_links, loc.total_processed,
                        world.max_documents, 1, 0, Clock)
        IN /\ st = q.s
           /\ loc.processed_count = q.processed_count

----------------------------------------------------------------------------
(* The StorageManager, operation by operation (SpecStore) *)

MaxSaves == 2       \* documents counted by the sessions of SpecStore

sessionVars == <<world, run, pc, exit_kind, loc, summary_file>>

\* AtomicFileWriter.__exit__ with the temporary file closed: without an
\* exception the temporary file is moved onto the final path (a rename inside
\* one directory), with one it is unlinked
AtomicFileWriter_exit_moving_always(final, tmp, raised) ==
    [final |-> tmp, tmp |-> Absent]

AtomicFileWriter_exit(final, tmp, raised) ==
    IF ~raised
    THEN [final |-> tmp, tmp |-> Absent]
    ELSE [final |-> final, tmp |-> Absent]

\* Checkpoints a former process may have left behind
OldCheckpoints ==
    {FreshCheckpoint(SessionId(0)),
     [FreshCheckpoint(SessionId(0)) EXCEPT
        !.processed_pages = 1, !.processed_documents = 1,
        !.processed_doc_ids = {1}]}

\* What the StorageManager is asked to save: document 1 as parsed at time 1
\* and as parsed again at time 2 (a changed record)
StoreLink(d) == [kind |-> "docid", key |-> d]

StoreRecords ==
    {parse_document(StoreLink(1), 1, "browser", 1),
     parse_document(StoreLink(1), 1, "browser", 2)}

StoreIndexes == {1, 2}

StoreWorld ==
    [pageOf |-> [d \in Docs |-> 1], kind |-> [d \in Docs |-> "docid"],
     outcome |-> [d \in Docs |-> "ok"], max_documents |-> None,
     concurrent_pages |-> 1]

\* The output directory as a new process finds it: no checkpoint, a valid one,
\* or one that cannot be read or parsed
StoreInit ==
    /\ world = StoreWorld
    /\ run = 1
    /\ pc = "idle"
    /\ exit_kind = "none"
    /\ st = InitStore
    /\ summary_file = Absent
    /\ loc = InitLoc
    /\ tmp_file = Absent
    /\ wpc = "idle"
    /\ up = TRUE
    /\ ret = [op |-> "none"]
    /\ \/ /\ checkpoint_file \in {Absent} \cup {[kind |-> k] : k \in CorruptKinds \ {"partial"}}
                                         \cup {PartialFile(to_dict(cd)) : cd \in OldCheckpoints}
          /\ ghost = [InitGhost EXCEPT
                        !.persisted = [file |-> checkpoint_file, cd |-> NoCheckpoint]]
       \/ \E cd \in OldCheckpoints :
            /\ checkpoint_file = JsonFile(to_dict(cd))
            /\ ghost = [InitGhost EXCEPT
                          !.persisted = [file |-> checkpoint_file, cd |-> <<cd>>]]

Ready == up /\ wpc = "idle"

\* The call that save_checkpoint is part of has returned
Returned == ret' = [ret EXCEPT !.done = TRUE]

save_checkpoint_reraising(exc) == [logged |-> exc, raised |-> exc]

\* The handler of save_checkpoint's try, "except Exception as e": the
\* failure is logged and does not leave save_checkpoint
save_checkpoint_except(exc) == [logged |-> exc, raised |-> FALSE]

\* The write of save_checkpoint raised: the handler runs, and the call that
\* save_checkpoint is part of returns
ReturnedAfterFailure ==
    ret' = [ret EXCEPT !.done = TRUE, !.save_failed = TRUE,
                       !.save_raised = save_checkpoint_except(TRUE).raised]

\* initialize_session(session_id) by a process that has just started; a fresh
\* session goes on into save_checkpoint
S_InitializeSession ==
    /\ Ready
    /\ st.checkpoint_data = NoCheckpoint
    /\ LET sid == SessionId(run)
           r == initialize_session(checkpoint_file, sid)
       IN  /\ st' = [st EXCEPT !.checkpoint_data = r.cd]
           /\ wpc' = IF r.fresh THEN "enter" ELSE "idle"
           /\ ret' = [op |-> "init", session_id |-> sid, file |-> checkpoint_file,
                      raised |-> r.raised, value |-> r.ret,
                      done |-> ~r.fresh, save_failed |-> FALSE,
                      save_raised |-> FALSE]
    /\ UNCHANGED <<checkpoint_file, tmp_file, up, ghost, sessionVars>>

\* save_document_metadata(metadata, doc_index) in an initialised session.
\* mapped_before is read off the index as the call finds it; again: the call
\* before this one was a save of the same record under the same file name
S_SaveDocumentMetadata ==
    /\ Ready
    /\ st.checkpoint_data # NoCheckpoint
    /\ st.checkpoint_data[1].processed_documents < MaxSaves
    /\ \E metadata \in StoreRecords, doc_index \in StoreIndexes, io_ok \in BOOLEAN, err_ok \in BOOLEAN :
        LET r == save_document_metadata(st, metadata, doc_index, io_ok, err_ok)
            filename == MetaName(doc_index)
            again == /\ ret.op = "save"
                     /\ ret.filename = filename
                     /\ ret.content_hash = Hash(metadata)
        IN /\ st' = r.s
           /\ ret' = [op |-> "save", filename |-> filename,
                      content_hash |-> Hash(metadata),
                      mapped_before |->
                          /\ filename \in DOMAIN st.hashes
                          /\ st.hashes[filename] = Hash(metadata),
                      wrote |-> r.wrote, raised |-> r.raised,
                      error_saved |-> r.raised /\ err_ok,
                      again |-> again,
                      first_mapped |-> IF again THEN ret.mapped_before ELSE FALSE,
                      first_wrote |-> IF again THEN ret.wrote ELSE FALSE]
    /\ UNCHANGED <<checkpoint_file, tmp_file, wpc, up, ghost, sessionVars>>

\* save_checkpoint() (as cleanup_session calls it): nothing without a session
S_SaveCheckpoint ==
    /\ Ready
    /\ wpc' = IF st.checkpoint_data # NoCheckpoint THEN "enter" ELSE "idle"
    /\ ret' = [op |-> "save_checkpoint", done |-> st.checkpoint_data = NoCheckpoint,
               save_failed |-> FALSE, save_raised |-> FALSE]
    /\ UNCHANGED <<st, checkpoint_file, tmp_file, up, ghost, sessionVars>>

\* AtomicFileWriter.__enter__: open(temp, 'w') creates or truncates the
\* temporary file; if it raises, save_checkpoint logs and returns
W_Enter ==
    /\ up /\ wpc = "enter"
    /\ \/ /\ tmp_file' = [kind |-> "empty"]
          /\ wpc' = "dump"
          /\ UNCHANGED ret
       \/ /\ wpc' = "idle"
          /\ ReturnedAfterFailure
          /\ UNCHANGED tmp_file
    /\ UNCHANGED <<st, checkpoint_file, up, ghost, sessionVars>>

\* json.dump(checkpoint_data.to_dict(), f): the document reaches the temporary
\* file in two writes; a write that raises leaves through __exit__, and
\* save_checkpoint logs and returns
W_Dump ==
    /\ up /\ wpc \in {"dump", "partway"}
    /\ \/ /\ tmp_file' = IF wpc = "dump"
                         THEN PartialFile(to_dict(st.checkpoint_data[1]))
                         ELSE JsonFile(to_dict(st.checkpoint_data[1]))
          /\ wpc' = IF wpc = "dump" THEN "partway" ELSE "exit"
          /\ UNCHANGED <<checkpoint_file, ret>>
       \/ LET x == AtomicFileWriter_exit(checkpoint_file, tmp_file, TRUE)
          IN /\ checkpoint_file' = x.final
             /\ tmp_file' = x.tmp
             /\ wpc' = "idle"
             /\ ReturnedAfterFailure
    /\ UNCHANGED <<st, up, ghost, sessionVars>>

\* The with block ends without an exception: __exit__ moves the temporary
\* file into place, and this save_checkpoint has persisted the state
W_Exit ==
    /\ up /\ wpc = "exit"
    /\ LET x == AtomicFileWriter_exit(checkpoint_file, tmp_file, FALSE)
       IN /\ checkpoint_file' = x.final
          /\ tmp_file' = x.tmp
          /\ ghost' = [ghost EXCEPT
                         !.persisted = [file |-> x.final, cd |-> st.checkpoint_data]]
    /\ wpc' = "idle"
    /\ Returned
    /\ UNCHANGED <<st, up, sessionVars>>

\* The process dies, at any point: its memory is gone, the files stay (the
\* dedup index is on disk since register_file's _save_hashes)
S_Crash ==
    /\ up
    /\ up' = FALSE
    /\ wpc' = "idle"
    /\ st' = [st EXCEPT !.checkpoint_data = NoCheckpoint]
    /\ ret' = [op |-> "crash", midwrite |-> wpc # "idle"]
    /\ UNCHANGED <<checkpoint_file, tmp_file, ghost, sessionVars>>

\* The program is started again over the same output directory
S_Start ==
    /\ ~up
    /\ run + 1 \in Runs
    /\ run' = run + 1
    /\ up' = TRUE
    /\ UNCHANGED <<world, pc, exit_kind, loc, summary_file, st, checkpoint_file,
                   tmp_file, wpc, ret, ghost>>

StoreNext ==
    \/ S_InitializeSession
    \/ S_SaveDocumentMetadata
    \/ S_SaveCheckpoint
    \/ W_Enter
    \/ W_Dump
    \/ W_Exit
    \/ S_Crash
    \/ S_Start

SpecStore == StoreInit /\ [][StoreNext]_vars

----------------------------------------------------------------------------
(* Properties of the StorageManager (SpecStore) *)

\* C6: Atomic checkpoint write.  At every point, and so after a
\* save_checkpoint that failed at any step and after a crash at any step
\* before the move, the file at the checkpoint's final path is the one the
\* last completed save_checkpoint put there (or the one found at the start),
\* while the temporary file may be absent, empty, partial or complete; and an
\* initialize_session that then returns has loaded exactly the state that
\* save_checkpoint persisted.
C6_AtomicCheckpointWrite ==
    /\ checkpoint_file = ghost.persisted.file
    /\ (ret.op = "init" /\ ret.done /\ ghost.persisted.cd # NoCheckpoint
            /\ ret.file = ghost.persisted.file)
        => /\ st.checkpoint_data = ghost.persisted.cd
           /\ ret.value = ghost.persisted.cd[1].session_id

\* C6, witness: a process counted a document after its last completed
\* save_checkpoint and died inside the next one, leaving a partly written
\* temporary file; the next process has initialised its session from the
\* checkpoint file
C6_Witness ==
    /\ run = 2 /\ up
    /\ ret.op = "init" /\ ret.done
    /\ tmp_file.kind = "partial"
    /\ checkpoint_file.kind = "json"
    /\ tmp_file.data # checkpoint_file.data
    /\ st.checkpoint_data = ghost.persisted.cd

\* C8: Corrupt checkpoint is not fatal.  When initialize_session has returned
\* and the checkpoint file it found existed but could not be read or parsed,
\* it did not raise, the session in memory is a fresh one (page, document and
\* error counts zero, no processed ID) and the value returned is that
\* session's id.
C8_CorruptCheckpointNotFatal ==
    (ret.op = "init" /\ ret.file.kind \in CorruptKinds) =>
        /\ ~ret.raised
        /\ st.checkpoint_data # NoCheckpoint
        /\ ret.done =>
            /\ st.checkpoint_data[1].processed_pages = 0
            /\ st.checkpoint_data[1].processed_documents = 0
            /\ st.checkpoint_data[1].errors_count = 0
            /\ st.checkpoint_data[1].processed_doc_ids = {}
            /\ ret.value = st.checkpoint_data[1].session_id
            /\ ret.value = ret.session_id

\* C8, witness: initialize_session returned after finding a checkpoint file
\* that json.load rejects, and the fresh session replaced it on disk
C8_Witness ==
    /\ ret.op = "init" /\ ret.done
    /\ ret.file.kind = "unparsable"
    /\ checkpoint_file = JsonFile(to_dict(FreshCheckpoint(ret.session_id)))

\* C9: Dedup idempotence.  A save_document_metadata that returns has skipped
\* the disk write if and only if the dedup index, as the call found it,
\* mapped that file name to that content hash (and a skip never raises); so
\* when the same record is saved twice in a row under the same file name,
\* starting from an index that does not map it, and the second call returns,
\* exactly one of the two calls wrote to disk; a changed record, or the same
\* record under another file name, is written.
C9_DedupIdempotence ==
    ret.op = "save" =>
        /\ ~ret.raised => (~ret.wrote <=> ret.mapped_before)
        /\ ret.raised => (~ret.wrote /\ ~ret.mapped_before)
        /\ (ret.again /\ ~ret.first_mapped /\ ~ret.raised)
            => (ret.first_wrote # ret.wrote)
        /\ (ret.again /\ ret.first_wrote) => (~ret.wrote /\ ~ret.raised)

\* C9, witness: a record was written, saved again under the same file name
\* without a disk write, and the index holds another file name as well
C9_Witness ==
    /\ ret.op = "save"
    /\ ret.again /\ ret.first_wrote /\ ~ret.wrote
    /\ Cardinality(DOMAIN st.hashes) = 2

----------------------------------------------------------------------------
(* Properties of the checkpoint's bookkeeping *)

\* C11: Every successful save is counted.  When a batch has returned, every
\* document of it whose metadata was saved has its identity in the processed-ID
\* set (is_document_processed is true for it), and the processed document count
\* has grown by one for each of them since the batch began.
C11_EverySaveCounted ==
    BatchDone =>
        LET saved == {i \in BatchWhere("dispatched") :
                        world.outcome[loc.document_links[i].key] = "ok"}
        IN /\ \A i \in saved :
                is_document_processed(st.checkpoint_data, loc.document_links[i].key)
           /\ st.checkpoint_data[1].processed_documents
                = ghost.batch_start.checkpoint_data[1].processed_documents
                    + Cardinality(saved)

\* C12: Checkpoint invariant.  In every state of a session the processed-ID
\* set has at most as many elements as the processed document count says, and
\* no step of a session takes an ID out of the set.
C12_CheckpointInvariant ==
    /\ [](st.checkpoint_data # NoCheckpoint =>
            Cardinality(st.checkpoint_data[1].processed_doc_ids)
                <= st.checkpoint_data[1].processed_documents)
    /\ [][(st.checkpoint_data # NoCheckpoint /\ st'.checkpoint_data # NoCheckpoint)
            => st.checkpoint_data[1].processed_doc_ids
                 \subseteq st'.checkpoint_data[1].processed_doc_ids]_vars

\* C12, witness: a resumed session, which loaded an ID from the checkpoint
\* file, has saved a further document and holds both IDs
C12_Witness ==
    /\ run = 2
    /\ st.checkpoint_data # NoCheckpoint
    /\ ghost.run1.documents >= 1
    /\ st.checkpoint_data[1].processed_documents > ghost.run1.documents
    /\ Cardinality(st.checkpoint_data[1].processed_doc_ids) >= 2

\* C13: Monotonic counters.  Over page updates, document saves, saves of the
\* checkpoint and a resume from it, the page count and the document count in
\* memory are never below the counts of the snapshot last persisted (so a
\* count that was persisted and loaded again never goes down afterwards).
C13_MonotonicCounters ==
    (st.checkpoint_data # NoCheckpoint /\ IsValidFile(checkpoint_file)) =>
        /\ st.checkpoint_data[1].processed_pages
             >= from_dict(checkpoint_file.data).processed_pages
        /\ st.checkpoint_data[1].processed_documents
             >= from_dict(checkpoint_file.data).processed_documents

----------------------------------------------------------------------------
(* RetryablePageManager.navigate_with_retry (browser/manager.py), SpecNav *)

MaxAttempts == 3    \* largest retry_attempts tried (settings: 1 .. 10)

\* What the calls into the browser do: page.goto raises or not, the backoff
\* page.wait_for_timeout raises or not (it is a call on the same page, which
\* a closed or crashed page refuses like any other)
CallOutcomes == {"ok", "raise"}

\* navigate_with_retry from the given attempt of its for loop (attempt counts
\* from 0): the value returned, whether an exception left the function, and
\* the number of page.goto calls made.  goto[k], wait[k]: what the k-th
\* page.goto and the k-th backoff wait do.
RECURSIVE navigate_with_retry(_, _, _, _)
navigate_with_retry(retry_attempts, goto, wait, attempt) ==
    IF attempt >= retry_attempts
    THEN [value |-> FALSE, raised |-> FALSE, gotos |-> attempt]
    ELSE IF goto[attempt + 1] = "ok"
    THEN [value |-> TRUE, raised |-> FALSE, gotos |-> attempt + 1]
    ELSE IF attempt < retry_attempts - 1 /\ wait[attempt + 1] = "raise"
    THEN [value |-> FALSE, raised |-> TRUE, gotos |-> attempt + 1]
    ELSE navigate_with_retry(retry_attempts, goto, wait, attempt + 1)

NavInputs ==
    [retry_attempts : 1 .. MaxAttempts,
     goto : [1 .. MaxAttempts -> CallOutcomes],
     wait : [1 .. MaxAttempts -> CallOutcomes]]

NavInit ==
    /\ world \in NavInputs
    /\ run = 1
    /\ pc = "idle"
    /\ exit_kind = "none"
    /\ st = InitStore
    /\ checkpoint_file = Absent
    /\ summary_file = Absent
    /\ loc = InitLoc
    /\ ghost = InitGhost
    /\ tmp_file = Absent
    /\ wpc = "idle"
    /\ up = TRUE
    /\ ret = [op |-> "none"]

\* One call navigate_with_retry(page, url)
N_Navigate ==
    /\ pc = "idle"
    /\ LET r == navigate_with_retry(world.retry_attempts, world.goto, world.wait, 0)
       IN ret' = [op |-> "navigate", value |-> r.value, raised |-> r.raised,
                  gotos |-> r.gotos]
    /\ pc' = "returned"
    /\ UNCHANGED <<world, run, exit_kind, st, checkpoint_file, summary_file, loc,
                   ghost, tmp_file, wpc, up>>

NavNext == N_Navigate

SpecNav == NavInit /\ [][NavNext]_vars

\* The attempts of this call whose page.goto succeeds
GoodAttempts == {k \in 1 .. world.retry_attempts : world.goto[k] = "ok"}

\* C14: Navigation retry is bounded and never raises.  A call of
\* navigate_with_retry makes at most retry_attempts page.goto calls and no
\* exception leaves it; it returns true exactly when one of the attempts
\* succeeds, having made no attempt after the first that succeeded, and false
\* when all retry_attempts attempts failed.
C14_NavigationRetryNeverRaises ==
    ret.op = "navigate" =>
        /\ ~ret.raised
        /\ ret.gotos <= world.retry_attempts
        /\ ret.value <=> GoodAttempts # {}
        /\ ret.value => \A k \in GoodAttempts : ret.gotos <= k
        /\ ~ret.value => ret.gotos = world.retry_attempts

----------------------------------------------------------------------------
(* Properties of the session's failures (Spec) *)

\* The links of the current batch that were dispatched and whose navigation
\* failed after all retries
BatchFailed ==
    {i \in BatchWhere("dispatched") :
        world.outcome[loc.document_links[i].key] = "fail"}

----------------------------------------------------------------------------
(* The pagination loop of _process_listing_pages with _navigate_to_next_page
   (main.py), SpecPager: the batch of a page is reduced to the count it
   returns, the next-page controls are spelled out *)

MaxPages == 3       \* listing pages visited by a session of SpecPager
NumSelectors == 2   \* next_page_selector and the alternative_next_selectors
MaxLinks == 2       \* document links on one listing page

\* An attribute as get_attribute returns it: None, or its value
NoAttr == [present |-> FALSE, value |-> ""]
Attr(v) == [present |-> TRUE, value |-> v]

\* Python's truth value of what get_attribute returned
AttrTruthy(a) == a.present /\ a.value # ""

\* What one next-page selector meets on the page: no element; an element
\* with disabled="disabled"; an element with the bare attribute (disabled="")
\* which, being an <a>, still takes the click; an enabled element whose click
\* raises; one whose wait_for_load_state raises; one that works
NextControls ==
    {[found |-> FALSE, disabled |-> NoAttr, click |-> "ok", load |-> "ok"],
     [found |-> TRUE, disabled |-> Attr("disabled"), click |-> "ok", load |-> "ok"],
     [found |-> TRUE, disabled |-> Attr(""), click |-> "ok", load |-> "ok"],
     [found |-> TRUE, disabled |-> NoAttr, click |-> "raise", load |-> "ok"],
     [found |-> TRUE, disabled |-> NoAttr, click |-> "ok", load |-> "raise"],
     [found |-> TRUE, disabled |-> NoAttr, click |-> "ok", load |-> "ok"]}

RECURSIVE navigate_to_next_page(_, _)
\* _navigate_to_next_page from its k-th selector: True at the first selector
\* whose element is found, passes `if not is_disabled`, and whose click and
\* wait_for_load_state do not raise; False when the selectors are exhausted
navigate_to_next_page(controls, k) ==
    IF k > Len(controls) THEN FALSE
    ELSE LET c == controls[k]
         IN IF c.found /\ ~AttrTruthy(c.disabled) /\ c.click = "ok" /\ c.load = "ok"
            THEN TRUE
            ELSE navigate_to_next_page(controls, k + 1)

\* One pass through the body of the while loop, for a page with n_links
\* links whose batch returns processed_on_page: why the loop is left ("go":
\* it is not), and the locals after it
LoopBody(page_num, total_processed, max_documents, n_links, processed_on_page, controls) ==
    IF n_links = 0
    THEN [leave |-> "no_links", page_num |-> page_num,
          total_processed |-> total_processed, recorded |-> FALSE]
    ELSE LET total == total_processed + processed_on_page
         IN IF Truthy(max_documents) /\ total >= max_documents
            THEN [leave |-> "ceiling", page_num |-> page_num,
                  total_processed |-> total, recorded |-> TRUE]
            ELSE IF ~navigate_to_next_page(controls, 1)
            THEN [leave |-> "no_next", page_num |-> page_num,
                  total_processed |-> total, recorded |-> TRUE]
            ELSE [leave |-> "go", page_num |-> page_num + 1,
                  total_processed |-> total, recorded |-> TRUE]

PagerInit ==
    /\ \E m \in CeilingValues : world = [StoreWorld EXCEPT !.max_documents = m]
    /\ run = 1
    /\ pc = "loop"
    /\ exit_kind = "none"
    /\ st = [InitStore EXCEPT !.checkpoint_data = <<FreshCheckpoint(SessionId(1))>>]
    /\ checkpoint_file = JsonFile(to_dict(FreshCheckpoint(SessionId(1))))
    /\ summary_file = Absent
    /\ loc = [InitLoc EXCEPT !.page_num = 1]
    /\ ghost = InitGhost
    /\ tmp_file = Absent
    /\ wpc = "idle"
    /\ up = TRUE
    /\ ret = [op |-> "none"]

\* The while loop runs its body once
P_Page ==
    /\ pc = "loop"
    /\ loc.page_num <= MaxPages
    /\ \E n_links \in 0 .. MaxLinks, controls \in [1 .. NumSelectors -> NextControls] :
       \E processed_on_page \in 0 .. n_links :
         LET r == LoopBody(loc.page_num, loc.total_processed, world.max_documents,
                           n_links, processed_on_page, controls)
             s1 == IF r.recorded
                   THEN update_page_progress(st, loc.page_num, loc.page_num) ELSE st
         IN /\ st' = s1
            /\ checkpoint_file' =
                 IF r.recorded /\ persist_due(loc.page_num)
                 THEN save_checkpoint(s1, checkpoint_file, DiskOk) ELSE checkpoint_file
            /\ loc' = [loc EXCEPT !.page_num = r.page_num,
                                  !.total_processed = r.total_processed]
            /\ pc' = IF r.leave = "go" THEN "loop" ELSE "finalize"
            /\ ret' = [op |-> "page", leave |-> r.leave, page_num |-> loc.page_num,
                       n_links |-> n_links, controls |-> controls]
    /\ UNCHANGED <<world, run, exit_kind, summary_file, ghost, tmp_file, wpc, up>>

PagerNext == P_Page

SpecPager == PagerInit /\ [][PagerNext]_vars

\* A next-page control that can be used: it is there, it is not disabled,
\* and clicking it loads the next page
Usable(c) ==
    c.found /\ ~c.disabled.present /\ c.click = "ok" /\ c.load = "ok"

\* C16: Pagination halts exactly on the terminal conditions.  A pass of the
\* listing loop leaves the loop if and only if the page yielded no document
\* links, or the document ceiling is reached (max_documents set and the
\* running total at or above it), or no next-page control can be used (each
\* selector's control is absent, disabled, or fails); otherwise the loop goes
\* on with the next page number.
C16_PaginationHaltsOnTerminalConditions ==
    ret.op = "page" =>
        /\ pc # "loop" <=>
             \/ ret.n_links = 0
             \/ Truthy(world.max_documents)
                  /\ loc.total_processed >= world.max_documents
             \/ \A k \in DOMAIN ret.controls : ~Usable(ret.controls[k])
        /\ pc = "loop" => loc.page_num = ret.page_num + 1

----------------------------------------------------------------------------
(* URL filtering and deduplication: _should_include_document and
   _deduplicate_urls (main.py), SpecUrl.  A URL is the sequence of the pieces
   of its text that the code's substring tests and regular expressions tell
   apart; "curia?" stands for the CURIA document address up to its query. *)

MaxUrls == 3        \* links found on one listing page

Digits == {"5", "7"}
Upper2 == {"EN", "FR"}          \* two capital letters, as [A-Z]{2} matches

\* The preferred_language setting; "" is no preferred language
Languages == {"", "EN", "FR"}

Urls ==
    {<<"curia?", "docid=", "5">>,
     <<"curia?", "docid=", "5", "&", "doclang=", "EN">>,
     <<"curia?", "docid=", "5", "&", "doclang=", "FR">>,
     <<"curia?", "docid=", "7">>,
     <<"curia?", "docid=", "5", "7">>,
     <<"curia?", "docid=", "x">>,
     <<"curia?", "x">>,
     <<"eur-lex.europa.eu", "/", "EN", "/", "TXT", "/", "?uri=", "CELEX:", "A">>,
     <<"eur-lex.europa.eu", "/", "FR", "/", "TXT", "/", "?uri=", "CELEX:", "A">>,
     <<"eur-lex.europa.eu", "/", "TXT", "/", "?uri=", "CELEX:", "A", "&", "x">>,
     <<"eur-lex.europa.eu", "/", "FR", "/", "EN", "/", "?uri=", "CELEX:", "B">>,
     <<"eur-lex.europa.eu", "?uri=", "CELEX:", "5">>}

\* `pattern in url` for a pattern made of whole pieces
Contains(url, pattern) ==
    \E i \in 1 .. Len(url) - Len(pattern) + 1 :
        \A j \in 1 .. Len(pattern) : url[i + j - 1] = pattern[j]

\* The least element of a non-empty set of positions
First(S) == CHOOSE i \in S : \A j \in S : i <= j

IsDigit(c) == c \in Digits
NotAmpersand(c) == c # "&"

RECURSIVE DigitRun(_, _)
\* (\d+) from position i: the longest run of digits
DigitRun(url, i) ==
    IF i > Len(url) \/ ~IsDigit(url[i]) THEN <<>>
    ELSE <<url[i]>> \o DigitRun(url, i + 1)

RECURSIVE NotAmpersandRun(_, _)
\* ([^&]+) from position i: everything up to the next & or the end
NotAmpersandRun(url, i) ==
    IF i > Len(url) \/ ~NotAmpersand(url[i]) THEN <<>>
    ELSE <<url[i]>> \o NotAmpersandRun(url, i + 1)

\* re.search(r"docid=(\d+)", url): <<>> for no match, else <<group(1)>>
docid_match(url) ==
    LET hits == {i \in 1 .. Len(url) - 1 : url[i] = "docid=" /\ IsDigit(url[i + 1])}
    IN IF hits = {} THEN <<>> ELSE <<DigitRun(url, First(hits) + 1)>>

\* re.search(r"CELEX:([^&]+)", url)
celex_match(url) ==
    LET hits == {i \in 1 .. Len(url) - 1 : url[i] = "CELEX:" /\ NotAmpersand(url[i + 1])}
    IN IF hits = {} THEN <<>> ELSE <<NotAmpersandRun(url, First(hits) + 1)>>

\* re.search(r'/([A-Z]{2})/', url)
lang_match(url) ==
    LET hits == {i \in 1 .. Len(url) - 2 :
                    url[i] = "/" /\ url[i + 1] \in Upper2 /\ url[i + 2] = "/"}
    IN IF hits = {} THEN <<>> ELSE <<url[First(hits) + 1]>>

should_include_document_any_signal(url, preferred_lang) ==
    IF preferred_lang = "" THEN TRUE
    ELSE IF Contains(url, <<"eur-lex.europa.eu">>)
    THEN lang_match(url) = <<>>
    ELSE ~Contains(url, <<"doclang=">>)

\* _should_include_document(url)
should_include_document(url, preferred_lang) ==
    IF preferred_lang = "" THEN TRUE
    ELSE IF Contains(url, <<"eur-lex.europa.eu">>)
    THEN IF Contains(url, <<"/", preferred_lang, "/">>) THEN TRUE
         ELSE IF lang_match(url) # <<>> /\ lang_match(url)[1] # preferred_lang
         THEN FALSE
         ELSE TRUE
    ELSE IF Contains(url, <<"doclang=", preferred_lang>>) THEN TRUE
    ELSE IF Contains(url, <<"doclang=">>) THEN FALSE
    ELSE TRUE

\* The pieces _deduplicate_urls appends: "&doclang=<preferred_language>"
LanguageSuffix(preferred_lang) == <<"&", "doclang=", preferred_lang>>

needs_language_always(url, preferred_lang) == preferred_lang # ""

\* `self.settings.general.preferred_language and "doclang=" not in url`
needs_language(url, preferred_lang) ==
    preferred_lang # "" /\ ~Contains(url, <<"doclang=">>)

DedupStep_forgetting(seen_ids, unique_urls, url, preferred_lang) ==
    [seen_ids |-> seen_ids, unique_urls |-> Append(unique_urls, url)]

\* The body of the for loop of _deduplicate_urls for one url
DedupStep(seen_ids, unique_urls, url, preferred_lang) ==
    LET doc_match == docid_match(url)
        celex == celex_match(url)
    IN IF doc_match # <<>>
       THEN IF doc_match[1] \notin seen_ids
            THEN [seen_ids |-> seen_ids \cup {doc_match[1]},
                  unique_urls |->
                      Append(unique_urls,
                             IF needs_language(url, preferred_lang)
                             THEN url \o LanguageSuffix(preferred_lang) ELSE url)]
            ELSE [seen_ids |-> seen_ids, unique_urls |-> unique_urls]
       ELSE IF celex # <<>>
       THEN IF celex[1] \notin seen_ids
            THEN [seen_ids |-> seen_ids \cup {celex[1]},
                  unique_urls |-> Append(unique_urls, url)]
            ELSE [seen_ids |-> seen_ids, unique_urls |-> unique_urls]
       ELSE IF url \notin seen_ids
            THEN [seen_ids |-> seen_ids \cup {url},
                  unique_urls |-> Append(unique_urls, url)]
            ELSE [seen_ids |-> seen_ids, unique_urls |-> unique_urls]

RECURSIVE DedupFrom(_, _, _, _, _)
DedupFrom(urls, k, seen_ids, unique_urls, preferred_lang) ==
    IF k > Len(urls) THEN unique_urls
    ELSE LET r == DedupStep(seen_ids, unique_urls, urls[k], preferred_lang)
         IN DedupFrom(urls, k + 1, r.seen_ids, r.unique_urls, preferred_lang)

\* _deduplicate_urls(urls)
deduplicate_urls(urls, preferred_lang) ==
    DedupFrom(urls, 1, {}, <<>>, preferred_lang)

UrlLists == UNION {[1 .. n -> Urls] : n \in 0 .. MaxUrls}

UrlInit ==
    /\ \E urls \in UrlLists, lang \in Languages :
         world = [urls |-> urls, preferred_language |-> lang]
    /\ run = 1
    /\ pc = "idle"
    /\ exit_kind = "none"
    /\ st = InitStore
    /\ checkpoint_file = Absent
    /\ summary_file = Absent
    /\ loc = InitLoc
    /\ ghost = InitGhost
    /\ tmp_file = Absent
    /\ wpc = "idle"
    /\ up = TRUE
    /\ ret = [op |-> "none"]

urlFrame == <<world, run, exit_kind, st, checkpoint_file, summary_file, loc,
              ghost, tmp_file, wpc, up>>

\* _should_include_document is asked about each of the URLs
U_ShouldInclude ==
    /\ pc = "idle"
    /\ ret' = [op |-> "filter",
               included |-> [k \in DOMAIN world.urls |->
                               should_include_document(world.urls[k],
                                                       world.preferred_language)]]
    /\ pc' = "filtered"
    /\ UNCHANGED urlFrame

\* _deduplicate_urls is given the URLs
U_Deduplicate ==
    /\ pc = "idle"
    /\ ret' = [op |-> "dedup",
               out |-> deduplicate_urls(world.urls, world.preferred_language)]
    /\ pc' = "deduplicated"
    /\ UNCHANGED urlFrame

UrlNext ==
    \/ U_ShouldInclude
    \/ U_Deduplicate

SpecUrl == UrlInit /\ [][UrlNext]_vars

\* The key of a URL: its numeric docid if it has one, else its CELEX
\* identifier if it has one, else the URL itself
UrlKey(url) ==
    IF docid_match(url) # <<>> THEN docid_match(url)[1]
    ELSE IF celex_match(url) # <<>> THEN celex_match(url)[1]
    ELSE url

\* The places of the input whose key no earlier place has
FirstOfKey(urls) ==
    {i \in DOMAIN urls : \A j \in 1 .. i - 1 : UrlKey(urls[j]) # UrlKey(urls[i])}

\* The place in the output of the input place i, when the places S are kept
\* in order
Rank(S, i) == Cardinality({j \in S : j <= i})

\* C17: URL dedup keeps the first URL of each key.  The output of
\* _deduplicate_urls has one entry for each place of the input that is the
\* first of its key, in input order, and that entry is the input URL there
\* (as it is, or with the preferred language appended); every later URL of a
\* key already seen is dropped.
C17_DedupKeepsFirstOfKey ==
    ret.op = "dedup" =>
        LET F == FirstOfKey(world.urls)
        IN /\ Len(ret.out) = Cardinality(F)
           /\ \A i \in F :
                ret.out[Rank(F, i)] \in
                    {world.urls[i],
                     world.urls[i] \o LanguageSuffix(world.preferred_language)}

\* C17, witness: three URLs, the third with the docid of the first in another
\* language, the second with another key; two URLs come out
C17_Witness ==
    /\ ret.op = "dedup"
    /\ Len(world.urls) = 3 /\ Len(ret.out) = 2
    /\ world.urls[1] # world.urls[3]
    /\ UrlKey(world.urls[1]) = UrlKey(world.urls[3])
    /\ docid_match(world.urls[1]) # <<>>
    /\ UrlKey(world.urls[2]) # UrlKey(world.urls[1])

\* C18: Language is appended only where needed.  A retained URL comes out
\* with "&doclang=<preferred language>" appended if its key came from the
\* docid parameter, it has no doclang parameter and a preferred language is
\* set; in every other case it comes out unchanged.
C18_LanguageAppendedOnlyWhereNeeded ==
    ret.op = "dedup" =>
        LET F == FirstOfKey(world.urls)
        IN \A i \in F : Rank(F, i) \in DOMAIN ret.out =>
            LET url == world.urls[i]
                needed == /\ docid_match(url) # <<>>
                          /\ \A k \in DOMAIN url : url[k] # "doclang="
                          /\ world.preferred_language # ""
            IN ret.out[Rank(F, i)] =
                 IF needed THEN url \o LanguageSuffix(world.preferred_language)
                 ELSE url

\* C18, witness: with a preferred language set, a docid URL without doclang
\* came out longer, and a docid URL with another doclang came out unchanged
C18_Witness ==
    /\ ret.op = "dedup"
    /\ world.preferred_language = "EN"
    /\ Len(world.urls) = 2 /\ Len(ret.out) = 2
    /\ ret.out[1] = world.urls[1] \o LanguageSuffix("EN")
    /\ ret.out[2] = world.urls[2]
    /\ Contains(world.urls[2], <<"doclang=", "FR">>)

\* The explicit language signals of a URL: the /XX/ path segments of a
\* EUR-Lex URL, the doclang= values of any other
LanguageSignals(url) ==
    IF \E k \in DOMAIN url : url[k] = "eur-lex.europa.eu"
    THEN {url[i + 1] : i \in {j \in 1 .. Len(url) - 2 :
                                url[j] = "/" /\ url[j + 1] \in Upper2 /\ url[j + 2] = "/"}}
    ELSE {url[i + 1] : i \in {j \in 1 .. Len(url) - 1 : url[j] = "doclang="}}

\* C19: Language filter.  With a preferred language set, a URL is excluded
\* if and only if it carries an explicit language signal and none in the
\* preferred language (for a URL with one signal: a signal that differs); a
\* URL with the matching language, or with no language signal, is included;
\* with no preferred language every URL is included.
C19_LanguageFilter ==
    ret.op = "filter" =>
        \A k \in DOMAIN world.urls :
            ret.included[k] <=>
                \/ world.preferred_language = ""
                \/ LanguageSignals(world.urls[k]) = {}
                \/ world.preferred_language \in LanguageSignals(world.urls[k])

\* C19, witness: with preferred language EN, a EUR-Lex URL with /FR/ was
\* excluded, one with /EN/ and a URL without any signal were included
C19_Witness ==
    /\ ret.op = "filter"
    /\ world.preferred_language = "EN"
    /\ Len(world.urls) = 3
    /\ LanguageSignals(world.urls[1]) = {"FR"} /\ ~ret.included[1]
    /\ Contains(world.urls[1], <<"eur-lex.europa.eu">>)
    /\ LanguageSignals(world.urls[2]) = {"EN"} /\ ret.included[2]
    /\ LanguageSignals(world.urls[3]) = {} /\ ret.included[3]

\* C20: Exit codes.  When the process has ended, its exit code is 0 if the
\* session completed normally or was interrupted by the user, and 1 if a
\* fatal error occurred in the engine's construction or in the session.
C20_ExitCodes ==
    pc = "terminated" =>
        /\ exit_kind \in {"normal", "interrupted", "cancelled"} => ret.code = 0
        /\ exit_kind \in {"fatal", "construction_failed"} => ret.code = 1
        /\ exit_kind \in {"normal", "interrupted", "cancelled", "fatal",
                          "construction_failed"}

\* C20, witness: a session that had saved a document ended with a user
\* interrupt delivered as a cancellation, and the process has exited
C20_Witness ==
    /\ pc = "terminated"
    /\ exit_kind = "cancelled"
    /\ st.metadata_dir # EmptyMap
    /\ ret.code = 0

----------------------------------------------------------------------------
(* Configuration: ConfigManager (config/settings.py) and the command line
   of main() (main.py), SpecConfig *)

\* A language code as the string of its characters
UpperChars == {"D", "E", "F", "N", "R"}

\* The fields of the configuration that the environment or the command line
\* can override, and the five that the environment can
ConfigKeys == {"headless", "output_dir", "preferred_language", "listing_url", "level", "max_documents"}
EnvKeys == ConfigKeys \ {"max_documents"}

\* Settings(): the defaults of GeneralSettings, SiteSettings, LoggingSettings
DefaultSettings ==
    [headless |-> TRUE,
     output_dir |-> "./output",
     preferred_language |-> <<"E", "N">>,
     listing_url |-> "https://curia.europa.eu/juris/recherche.jsf?language=en",
     level |-> "INFO",
     max_documents |-> None]

\* An entry of a configuration table or of the environment: missing, or set
Missing(key) == [present |-> FALSE, value |-> DefaultSettings[key]]
Entry(v) == [present |-> TRUE, value |-> v]

\* A variable that os.environ does not hold (a variable that is set holds a
\* string)
NotInEnviron(key) == [present |-> FALSE, value |-> IF key = "preferred_language" THEN <<>> ELSE ""]

\* env_mappings: the environment variable of each overridable field
env_mappings ==
    [headless |-> "CURIA_GENERAL_HEADLESS",
     output_dir |-> "CURIA_GENERAL_OUTPUT_DIR",
     preferred_language |-> "CURIA_GENERAL_LANGUAGE",
     listing_url |-> "CURIA_SITE_LISTING_URL",
     level |-> "CURIA_LOGGING_LEVEL"]

\* str.lower() on the values the environment gives to CURIA_GENERAL_HEADLESS
Lower(s) ==
    CASE s = "TRUE" -> "true"
      [] s = "On" -> "on"
      [] OTHER -> s

\* The conversion of an environment string to the type of the field
env_value(key, value) ==
    IF key = "headless" THEN Lower(value) \in {"true", "1", "yes", "on"} ELSE value

\* _apply_env_overrides: every variable of env_mappings that is set replaces
\* the entry of the table
apply_env_overrides(config_data, environ) ==
    LET over(key) == IF environ[env_mappings[key]].present
                     THEN Entry(env_value(key, environ[env_mappings[key]].value))
                     ELSE config_data[key]
    IN [headless |-> over("headless"),
        output_dir |-> over("output_dir"),
        preferred_language |-> over("preferred_language"),
        listing_url |-> over("listing_url"),
        level |-> over("level"),
        max_documents |-> config_data["max_documents"]]

\* GeneralSettings.validate_language: two uppercase letters
validate_language(v) ==
    Len(v) = 2 /\ \A i \in 1 .. Len(v) : v[i] \in UpperChars

\* Settings(**config_data): whether validation passes, and the settings, a
\* missing entry taking its default
Validates(config_data) ==
    config_data["preferred_language"].present =>
        validate_language(config_data["preferred_language"].value)

SettingsOf(config_data) ==
    LET field(key) == IF config_data[key].present THEN config_data[key].value
                      ELSE DefaultSettings[key]
    IN [headless |-> field("headless"),
        output_dir |-> field("output_dir"),
        preferred_language |-> field("preferred_language"),
        listing_url |-> field("listing_url"),
        level |-> field("level"),
        max_documents |-> field("max_documents")]

\* The configuration file: missing, not TOML, or a table
NoConfigFile == [kind |-> "missing"]
BadToml == [kind |-> "unparsable"]
Toml(data) == [kind |-> "table", data |-> data]

\* toml.dump of the settings: None values are left out
DumpSettings(settings) ==
    Toml([headless |-> Entry(settings.headless),
          output_dir |-> Entry(settings.output_dir),
          preferred_language |-> Entry(settings.preferred_language),
          listing_url |-> Entry(settings.listing_url),
          level |-> Entry(settings.level),
          max_documents |-> IF settings.max_documents = None
                            THEN Missing("max_documents")
                            ELSE Entry(settings.max_documents)])

\* _create_default_config: default settings, written to the configuration
\* path; the open() for writing raises when the path cannot be written
create_default_config(file, writable) ==
    IF writable
    THEN [raised |-> FALSE, settings |-> DefaultSettings,
          file |-> DumpSettings(DefaultSettings)]
    ELSE [raised |-> TRUE, settings |-> DefaultSettings,
          file |-> file]

\* load_config: a missing file gives the defaults at once; otherwise backup
\* (a copy beside the file, which raises where nothing can be written),
\* parse, environment overrides, validation, and the file rewritten with the
\* settings in effect; any exception of these steps gives the defaults
load_config(file, environ, writable) ==
    IF file.kind = "missing" THEN create_default_config(file, writable)
    ELSE IF ~writable THEN create_default_config(file, writable)
    ELSE IF file.kind = "unparsable" THEN create_default_config(file, writable)
    ELSE LET config_data == apply_env_overrides(file.data, environ)
         IN IF ~Validates(config_data)
            THEN create_default_config(file, writable)
            ELSE [raised |-> FALSE, settings |-> SettingsOf(config_data),
                  file |-> DumpSettings(SettingsOf(config_data))]

\* main(): --headless and --verbose applied to the engine's settings
main_overrides(settings, args) ==
    [settings EXCEPT !["headless"] = IF args.headless THEN TRUE ELSE @,
                     !["level"] = IF args.verbose THEN "DEBUG" ELSE @]

\* start_scraping(max_documents=args.max_docs): the override of the ceiling
start_scraping_override(settings, max_documents) ==
    [settings EXCEPT !["max_documents"] = IF max_documents # None THEN max_documents ELSE @]

\* What the configuration file and the environment hold in the runs tried
FileValues ==
    [headless |-> {FALSE},
     output_dir |-> {"./from_file"},
     preferred_language |-> {<<"D", "E">>, <<"d", "e">>},
     listing_url |-> {"https://file.example/list"},
     level |-> {"WARNING"},
     max_documents |-> {2}]

EnvValues ==
    [headless |-> {"false", "TRUE"},
     output_dir |-> {"./from_env"},
     preferred_language |-> {<<"F", "R">>, <<"f", "r">>},
     listing_url |-> {"https://env.example/list"},
     level |-> {"ERROR"}]

FileEntries(key) == {Missing(key)} \cup {Entry(v) : v \in FileValues[key]}
EnvEntries(key) == {NotInEnviron(key)} \cup {Entry(v) : v \in EnvValues[key]}

ConfigFiles ==
    {NoConfigFile, BadToml} \cup
    {Toml(t) : t \in [headless : FileEntries("headless"),
                      output_dir : FileEntries("output_dir"),
                      preferred_language : FileEntries("preferred_language"),
                      listing_url : FileEntries("listing_url"),
                      level : FileEntries("level"),
                      max_documents : FileEntries("max_documents")]}

Environs ==
    [CURIA_GENERAL_HEADLESS : EnvEntries("headless"),
     CURIA_GENERAL_OUTPUT_DIR : EnvEntries("output_dir"),
     CURIA_GENERAL_LANGUAGE : EnvEntries("preferred_language"),
     CURIA_SITE_LISTING_URL : EnvEntries("listing_url"),
     CURIA_LOGGING_LEVEL : EnvEntries("level")]

\* argparse: --headless, --verbose, --max-docs
CliArgs == [headless : BOOLEAN, verbose : BOOLEAN, max_docs : {None, 1}]

ConfigInit ==
    /\ world \in [file : ConfigFiles, environ : Environs, args : CliArgs,
                  writable : BOOLEAN]
    /\ run = 1
    /\ pc = "idle"
    /\ exit_kind = "none"
    /\ st = InitStore
    /\ checkpoint_file = Absent
    /\ summary_file = Absent
    /\ loc = InitLoc
    /\ ghost = InitGhost
    /\ tmp_file = Absent
    /\ wpc = "idle"
    /\ up = TRUE
    /\ ret = [op |-> "none"]

configFrame == <<world, run, exit_kind, st, checkpoint_file, summary_file, loc,
                 ghost, tmp_file, wpc, up>>

\* CuriaScraperEngine.__init__: self.settings = load_config()
G_LoadConfig ==
    /\ pc = "idle"
    /\ LET r == load_config(world.file, world.environ, world.writable)
       IN /\ ret' = [op |-> "load", raised |-> r.raised, settings |-> r.settings,
                     file |-> r.file]
          /\ pc' = IF r.raised THEN "load_failed" ELSE "loaded"
    /\ UNCHANGED configFrame

\* main() applies the flags and start_scraping the ceiling of the command
\* line
G_CliOverrides ==
    /\ pc = "loaded"
    /\ ret' = [ret EXCEPT !.op = "main",
                          !.settings = start_scraping_override(
                                           main_overrides(@, world.args),
                                           world.args.max_docs)]
    /\ pc' = "configured"
    /\ UNCHANGED configFrame

\* The exception of load_config leaves the constructor: main() exits
G_ConstructionFails ==
    /\ pc = "load_failed"
    /\ ret' = [op |-> "exit", code |-> main_exit_code("Exception")]
    /\ pc' = "terminated"
    /\ UNCHANGED configFrame

ConfigNext ==
    \/ G_LoadConfig
    \/ G_CliOverrides
    \/ G_ConstructionFails

SpecConfig == ConfigInit /\ [][ConfigNext]_vars

\* The value a field has by precedence: the environment variable's when it
\* is set, else the file's when the file has one, else the default
InEffect(key) ==
    IF key \in EnvKeys /\ world.environ[env_mappings[key]].present
    THEN env_value(key, world.environ[env_mappings[key]].value)
    ELSE IF world.file.kind = "table" /\ world.file.data[key].present
    THEN world.file.data[key].value
    ELSE DefaultSettings[key]

\* C21: Override precedence.  After loading, each of the five overridable
\* fields has the environment variable's value when it is set, else the
\* file's value, else the default, whether or not the configuration file
\* exists or loads cleanly; after the command line is applied, --headless,
\* --verbose and --max-docs win over both.
C21_OverridePrecedence ==
    /\ (ret.op = "load" /\ ~ret.raised) =>
        \A key \in EnvKeys : ret.settings[key] = InEffect(key)
    /\ ret.op = "main" =>
        /\ world.args.headless => ret.settings["headless"]
        /\ world.args.verbose => ret.settings["level"] = "DEBUG"
        /\ world.args.max_docs # None =>
               ret.settings["max_documents"] = world.args.max_docs
        /\ \A key \in EnvKeys \ {"headless", "level"} :
               ret.settings[key] = InEffect(key)
        /\ ~world.args.headless => ret.settings["headless"] = InEffect("headless")
        /\ ~world.args.verbose => ret.settings["level"] = InEffect("level")

\* C22: A configuration failure falls back to the defaults.  When the
\* configuration file is missing, unparsable or fails validation, load_config
\* returns the default settings and does not raise.
C22_ConfigFailureFallsBack ==
    (/\ ret.op = "load"
     /\ \/ world.file.kind \in {"missing", "unparsable"}
        \/ /\ world.file.kind = "table"
           /\ ~Validates(apply_env_overrides(world.file.data, world.environ))) =>
        /\ ~ret.raised
        /\ ret.settings = DefaultSettings

----------------------------------------------------------------------------
(* One document from navigation to saved record: _process_single_document
   with its PDF generators (main.py) and the two parsers (parsers/), SpecDoc *)

\* The sites the engine chooses parser and PDF generator by: whether
\* settings.site.base_url contains "eur-lex.europa.eu"
Sites == {"curia", "eurlex"}

\* The print-button selectors _generate_curia_pdf tries in turn
NumPrintSelectors == 4

\* What one print-button selector meets: wait_for_selector raises (no such
\* button in 5 s), the click or the load of the print view raises, page.pdf
\* raises, or the PDF is written
PrintOutcomes == {"no_button", "click_raises", "pdf_raises", "ok"}

\* What the EUR-Lex generator meets: the wait raises, page.pdf raises, or the
\* PDF is written
EurLexPdfOutcomes == {"wait_raises", "pdf_raises", "ok"}

\* The page's HTML as the quality assessors see it: the score its content
\* earns, in tenths
Htmls == {[length |-> 120, score |-> 0], [length |-> 6000, score |-> 7]}

\* The record a parser builds when every extraction step works
FullRecord(html, url, doc_id, processing_method, t) ==
    [doc_id |-> doc_id, url |-> url, processing_method |-> processing_method,
     extracted_at |-> t, html_length |-> html.length,
     content_quality_score |-> html.score, extracted |-> TRUE]

\* The record of the identifying fields alone, with quality score 0.0
MinimalRecord(html, url, doc_id, processing_method, t) ==
    [doc_id |-> doc_id, url |-> url, processing_method |-> processing_method,
     extracted_at |-> t, html_length |-> html.length,
     content_quality_score |-> 0, extracted |-> FALSE]

\* CuriaDocumentParser.parse_document: the body runs inside the logger's
\* log_processing_time, which is try/finally; an exception of BeautifulSoup
\* or of an extraction step leaves the function.  step_raises: does a step
\* raise on this page
curia_parse_document(html, url, doc_id, processing_method, step_raises, t) ==
    IF step_raises
    THEN [raised |-> TRUE,
          record |-> MinimalRecord(html, url, doc_id, processing_method, t)]
    ELSE [raised |-> FALSE,
          record |-> FullRecord(html, url, doc_id, processing_method, t)]

\* EurLexDocumentParser.parse_document: the body is in a try whose handler
\* logs and returns the minimal record
eurlex_parse_document(html, url, doc_id, processing_method, step_raises, t) ==
    IF step_raises
    THEN [raised |-> FALSE,
          record |-> MinimalRecord(html, url, doc_id, processing_method, t)]
    ELSE [raised |-> FALSE,
          record |-> FullRecord(html, url, doc_id, processing_method, t)]

\* self.parser.parse_document of the engine built for that site
parser_parse_document(site, html, url, doc_id, processing_method, step_raises, t) ==
    IF site = "eurlex"
    THEN eurlex_parse_document(html, url, doc_id, processing_method, step_raises, t)
    ELSE curia_parse_document(html, url, doc_id, processing_method, step_raises, t)

\* The name of the PDF of a document
PdfName(site, doc_id) == <<site, "pdf", doc_id>>

\* _generate_eurlex_pdf: wait, page.pdf, save_pdf_info (which swallows its
\* own failure); any exception gives False
generate_eurlex_pdf(pdfs, doc_id, outcome) ==
    IF outcome = "ok"
    THEN [success |-> TRUE, pdfs |-> pdfs \cup {PdfName("eurlex", doc_id)}, tried |-> 1]
    ELSE [success |-> FALSE, pdfs |-> pdfs, tried |-> 1]

RECURSIVE generate_curia_pdf(_, _, _, _)
\* _generate_curia_pdf from its k-th selector: the first selector whose
\* button is found, clicked and printed ends the loop with True; a selector
\* that raises anywhere is passed over; False after the last
generate_curia_pdf(pdfs, doc_id, prints, k) ==
    IF k > Len(prints)
    THEN [success |-> FALSE, pdfs |-> pdfs, tried |-> k - 1]
    ELSE IF prints[k] = "ok"
    THEN [success |-> TRUE, pdfs |-> pdfs \cup {PdfName("curia", doc_id)}, tried |-> k]
    ELSE generate_curia_pdf(pdfs, doc_id, prints, k + 1)

\* _try_generate_pdf: the generator of the site
try_generate_pdf(site, pdfs, doc_id, eurlex_outcome, prints) ==
    IF site = "eurlex"
    THEN generate_eurlex_pdf(pdfs, doc_id, eurlex_outcome)
    ELSE generate_curia_pdf(pdfs, doc_id, prints, 1)

\* The branch taken the wrong way round
processing_method_swapped(pdf_success) ==
    IF pdf_success THEN "html_extraction" ELSE "pdf_generation"

\* The branch of _process_single_document after _try_generate_pdf
processing_method_of(pdf_success) ==
    IF pdf_success THEN "pdf_generation" ELSE "html_extraction"

\* _process_single_document(doc_link, doc_index) with every step: navigate
\* (raise on failure), try the PDF, parse the page's content under the
\* method the PDF's outcome decides, save the record.  Gives the storage
\* state, the PDFs on disk, whether and with what the call raised, and what
\* was done on the way.
process_document(s, pdfs, site, doc_link, doc_index, d, t) ==
    LET doc_id == extract_doc_id_from_url(doc_link)
        nothing == [s |-> s, pdfs |-> pdfs, raised |-> TRUE,
                    error |-> "Failed to navigate to document",
                    pdf_tried |-> 0, pdf_success |-> FALSE, parsed |-> FALSE,
                    parse_raised |-> FALSE, html_path |-> FALSE, saved |-> FALSE]
    IN IF d.nav = "fail" THEN nothing
       ELSE LET pdf == try_generate_pdf(site, pdfs,
                                        IF doc_id # None THEN doc_id ELSE doc_index,
                                        d.eurlex_pdf, d.prints)
                method == processing_method_of(pdf.success)
                p == parser_parse_document(site, d.html, doc_link, doc_id, method,
                                           d.step_raises, t)
                done == [nothing EXCEPT !.pdfs = pdf.pdfs, !.pdf_tried = pdf.tried,
                                        !.pdf_success = pdf.success, !.parsed = TRUE,
                                        !.html_path = (method = "html_extraction")]
            IN IF p.raised
               THEN [done EXCEPT !.error = "parser failed", !.parse_raised = TRUE]
               ELSE LET r == save_document_metadata(s, p.record, doc_index, d.io_ok, TRUE)
                    IN [done EXCEPT !.s = r.s, !.raised = r.raised,
                                    !.error = "write failed", !.saved = r.wrote]

\* The documents tried: the site, the link, and what each step meets
DocInputs ==
    [site : Sites,
     link : {[kind |-> "docid", key |-> 1], [kind |-> "url", key |-> 2]},
     nav : Outcomes,
     eurlex_pdf : EurLexPdfOutcomes,
     prints : [1 .. NumPrintSelectors -> PrintOutcomes],
     html : Htmls,
     step_raises : BOOLEAN,
     io_ok : BOOLEAN]

DocInit ==
    /\ world \in DocInputs
    /\ run = 1
    /\ pc = "idle"
    /\ exit_kind = "none"
    /\ st = [InitStore EXCEPT !.checkpoint_data = <<FreshCheckpoint(SessionId(1))>>]
    /\ checkpoint_file = Absent
    /\ summary_file = Absent
    /\ loc = InitLoc
    /\ ghost = InitGhost
    /\ tmp_file = Absent
    /\ wpc = "idle"
    /\ up = TRUE
    /\ ret = [op |-> "none"]

\* One turn of the loop of _process_documents_sequential for the document:
\* _process_single_document, and save_error_info if it raised
D_ProcessDocument ==
    /\ pc = "idle"
    /\ LET r == process_document(st, {}, world.site, world.link, 1, world, Clock)
       IN /\ st' = IF r.raised
                   THEN save_error_info(r.s, 1, world.link, r.error)
                   ELSE r.s
          /\ ret' = [op |-> "process", raised |-> r.raised, pdfs |-> r.pdfs,
                     pdf_tried |-> r.pdf_tried, pdf_success |-> r.pdf_success,
                     parsed |-> r.parsed, parse_raised |-> r.parse_raised,
                     html_path |-> r.html_path, saved |-> r.saved]
    /\ pc' = "processed"
    /\ UNCHANGED <<world, run, exit_kind, checkpoint_file, summary_file, loc,
                   ghost, tmp_file, wpc, up>>

DocNext == D_ProcessDocument

SpecDoc == DocInit /\ [][DocNext]_vars

\* The record saved for the document
SavedRecord == st.metadata_dir[MetaName(1)]

\* C23: Parsers never raise.  Whichever parser the engine selected, its
\* parse_document returns a record for the page it is given; when a step
\* inside it fails, no exception reaches the caller, who gets (and saves) a
\* minimal record with quality score 0.0.
C23_ParsersNeverRaise ==
    (ret.op = "process" /\ ret.parsed) =>
        /\ ~ret.parse_raised
        /\ (world.step_raises /\ ret.saved) =>
               /\ SavedRecord.content_quality_score = 0
               /\ ~SavedRecord.extracted

\* C29: PDF first, HTML as fallback.  For every document whose page was
\* reached, PDF generation was attempted before anything was parsed, the
\* HTML-extraction path was taken exactly when PDF generation failed, and the
\* saved record's processing method is pdf_generation exactly when a PDF
\* artifact was produced, html_extraction otherwise.
C29_PdfFirstHtmlFallback ==
    (ret.op = "process" /\ world.nav = "ok") =>
        /\ ret.pdf_tried >= 1
        /\ ret.parsed
        /\ ret.html_path <=> ~ret.pdf_success
        /\ ret.pdf_success <=> ret.pdfs # {}
        /\ ret.saved =>
              SavedRecord.processing_method =
                  IF ret.pdfs # {} THEN "pdf_generation" ELSE "html_extraction"

\* C29, witness: on a CURIA page every print-button selector failed, one of
\* them at page.pdf; the HTML path was taken and the record saved as
\* html_extraction with no PDF on disk
C29_Witness ==
    /\ ret.op = "process" /\ world.site = "curia"
    /\ ret.pdf_tried = NumPrintSelectors
    /\ \E k \in 1 .. NumPrintSelectors : world.prints[k] = "pdf_raises"
    /\ ret.html_path /\ ret.saved /\ ret.pdfs = {}
    /\ SavedRecord.processing_method = "html_extraction"

\* C24: Error artifacts name the right document.  When a batch has returned,
\* in sequential and in parallel mode, every document of it whose processing
\* failed has an error artifact under its own index that carries that index,
\* that document's own URL and the error text.
C24_ErrorArtifactNamesDocument ==
    BatchDone =>
        \A i \in BatchFailed :
            LET doc_index == loc.total_processed + i
            IN /\ ErrorName(doc_index) \in DOMAIN st.errors_dir
               /\ st.errors_dir[ErrorName(doc_index)].doc_index = doc_index
               /\ st.errors_dir[ErrorName(doc_index)].url = loc.document_links[i]
               /\ st.errors_dir[ErrorName(doc_index)].error # ""

\* The per-document failures of this session: the dispatched documents whose
\* processing raised
SessionFailures ==
    {k \in DOMAIN ghost.dispatched : world.outcome[ghost.dispatched[k]] = "fail"}

\* C25: The error count is tracked.  When a session has ended normally, the
\* checkpoint's errors_count is the number of per-document failures recorded
\* during the session, and the persisted checkpoint and the session summary
\* report that number.
C25_ErrorCountTracked ==
    (pc = "exited" /\ exit_kind = "normal" /\ st.checkpoint_data # NoCheckpoint) =>
        /\ st.checkpoint_data[1].errors_count = Cardinality(SessionFailures)
        /\ IsValidFile(checkpoint_file) =>
              from_dict(checkpoint_file.data).errors_count = Cardinality(SessionFailures)
        /\ IsValidFile(summary_file) =>
              summary_file.data.errors_count = Cardinality(SessionFailures)

\* C26: A checkpoint write failure does not halt the session.  When the
\* write of save_checkpoint has failed, at the opening of the temporary file
\* or in the middle of the dump, no exception leaves save_checkpoint and the
\* manager is ready for the next call with the checkpoint file as it was; and
\* no step of a save_checkpoint, failing or not, changes the in-memory
\* counters or the set of processed IDs.
C26_CheckpointWriteFailureNotFatal ==
    /\ [](ret.op \in {"init", "save_checkpoint"} =>
             (ret.save_failed =>
                 /\ ret.done
                 /\ ~ret.save_raised
                 /\ up => wpc = "idle"
                 /\ checkpoint_file = ghost.persisted.file))
    /\ [][(wpc # "idle" /\ up') => st'.checkpoint_data = st.checkpoint_data]_vars

\* C26, witness: a session that has counted a document had its
\* save_checkpoint fail; the process is up and ready, its counters ahead of
\* the checkpoint file
C26_Witness ==
    /\ up /\ wpc = "idle"
    /\ ret.op = "save_checkpoint" /\ ret.save_failed /\ ret.done
    /\ st.checkpoint_data # NoCheckpoint
    /\ st.checkpoint_data[1].processed_documents >= 1
    /\ checkpoint_file.kind = "json"
    /\ from_dict(checkpoint_file.data).processed_documents
         < st.checkpoint_data[1].processed_documents

\* C27: Concurrency bound.  In bounded-parallel mode, at every point of every
\* interleaving, the number of documents being processed at the same time is
\* at most concurrent_pages, while every eligible document of the page has
\* its task from the start.
C27_ConcurrencyBound ==
    pc = "conc" =>
        /\ CountState(loc.tasks, "running") <= world.concurrent_pages
        /\ Len(loc.tasks) = Cardinality(BatchWhere("dispatched"))

\* C27, witness: three documents were submitted to a pool of two; two are
\* being processed and the third waits for the semaphore
C27_Witness ==
    /\ pc = "conc"
    /\ world.concurrent_pages = 2
    /\ Len(loc.tasks) = 3
    /\ CountState(loc.tasks, "running") = 2
    /\ CountState(loc.tasks, "pending") = 1

\* The tasks of the current batch that have saved a record with an identity
SavedTasks ==
    {k \in DOMAIN loc.tasks :
        /\ loc.tasks[k].state = "ok"
        /\ extract_doc_id_from_url(loc.tasks[k].link) # None}

\* C28: No lost checkpoint updates under concurrency.  At every point of
\* every interleaving of the parallel tasks of a batch, the checkpoint's
\* document count is its value at the start of the batch plus the number of
\* tasks that have saved a record with an identity, and the identity of each
\* of them is in the processed-ID set.
C28_NoLostCheckpointUpdates ==
    (pc \in {"conc", "after"} /\ world.concurrent_pages > 1
        /\ st.checkpoint_data # NoCheckpoint) =>
        /\ st.checkpoint_data[1].processed_documents
             = ghost.batch_start.checkpoint_data[1].processed_documents
               + Cardinality(SavedTasks)
        /\ \A k \in SavedTasks :
             extract_doc_id_from_url(loc.tasks[k].link)
                 \in st.checkpoint_data[1].processed_doc_ids

\* C28, witness: three parallel tasks with distinct identities have all
\* saved, and the count has grown by three
C28_Witness ==
    /\ pc = "after" /\ world.concurrent_pages > 1
    /\ Cardinality(SavedTasks) = 3
    /\ st.checkpoint_data[1].processed_documents
         = ghost.batch_start.checkpoint_data[1].processed_documents + 3

----------------------------------------------------------------------------
(* The progress of a session over its listing pages: update_page_progress
   as the listing loop calls it, once per page in rising order, between the
   saves of the documents (storage/manager.py, main.py), SpecProgress *)

MaxProgressPages == 10   \* listing pages recorded by a session of SpecProgress

\* The session as initialize_session left it: fresh, or loaded from the
\* checkpoint of a former run; either way the file holds what memory holds
ProgressInit ==
    /\ world = StoreWorld
    /\ run = 1
    /\ pc = "loop"
    /\ exit_kind = "none"
    /\ \E cd \in OldCheckpoints \cup {FreshCheckpoint(SessionId(1))} :
         /\ st = [InitStore EXCEPT !.checkpoint_data = <<cd>>]
         /\ checkpoint_file = JsonFile(to_dict(cd))
    /\ summary_file = Absent
    /\ loc = [InitLoc EXCEPT !.page_num = 1]
    /\ ghost = InitGhost
    /\ tmp_file = Absent
    /\ wpc = "idle"
    /\ up = TRUE
    /\ ret = [op |-> "none", page_num |-> 0, due |-> FALSE, io_ok |-> TRUE,
              file_before |-> checkpoint_file, last_persist |-> 0,
              failed_ever |-> FALSE]

progressFrame == <<world, run, pc, exit_kind, summary_file, ghost, tmp_file, wpc, up>>

\* A document of the current page is saved: save_document_metadata counts it
\* in memory
R_SaveDocument ==
    /\ pc = "loop"
    /\ loc.page_num <= MaxProgressPages
    /\ \E d \in Docs :
        /\ ~is_document_processed(st.checkpoint_data, d)
        /\ MetaName(d) \notin DOMAIN st.metadata_dir
        /\ st' = save_document_metadata(
                     st, parse_document(StoreLink(d), d, "html_extraction", Clock),
                     d, TRUE, TRUE).s
    /\ ret' = [ret EXCEPT !.op = "save"]
    /\ UNCHANGED <<checkpoint_file, loc, progressFrame>>

\* The loop has done the batch of page page_num:
\* update_page_progress(page_num, page.url), with its save_checkpoint when
\* the page number is due (io_ok: does the write succeed), then page_num += 1
R_UpdatePageProgress ==
    /\ pc = "loop"
    /\ loc.page_num <= MaxProgressPages
    /\ \E io_ok \in BOOLEAN :
        LET page_num == loc.page_num
            due == persist_due(page_num)
            s1 == update_page_progress(st, page_num, page_num)
        IN /\ due \/ io_ok
           /\ st' = s1
           /\ checkpoint_file' =
                 IF due THEN save_checkpoint(s1, checkpoint_file, io_ok)
                 ELSE checkpoint_file
           /\ ret' = [op |-> "page", page_num |-> page_num, due |-> due,
                      io_ok |-> io_ok, file_before |-> checkpoint_file,
                      last_persist |-> IF due /\ io_ok THEN page_num
                                       ELSE ret.last_persist,
                      failed_ever |-> ret.failed_ever \/ ~io_ok]
    /\ loc' = [loc EXCEPT !.page_num = @ + 1]
    /\ UNCHANGED progressFrame

ProgressNext ==
    \/ R_SaveDocument
    \/ R_UpdatePageProgress

SpecProgress == ProgressInit /\ [][ProgressNext]_vars

\* C30: Persist cadence.  Right after update_page_progress has recorded a
\* page, memory holds that page number; the checkpoint was written exactly
\* if the page number is a multiple of 5: then the file holds the in-memory
\* state (the write succeeding), otherwise the file is as it was; and as long
\* as no write has failed, fewer than 5 page advances are held in memory only.
C30_PersistCadence ==
    ret.op = "page" =>
        LET memory == st.checkpoint_data[1]
        IN /\ memory.processed_pages = ret.page_num
           /\ ret.due <=> ret.page_num % PersistEvery = 0
           /\ (ret.due /\ ret.io_ok) => checkpoint_file = JsonFile(to_dict(memory))
           /\ ~(ret.due /\ ret.io_ok) => checkpoint_file = ret.file_before
           /\ ~ret.failed_ever =>
                 /\ ret.page_num - ret.last_persist < PersistEvery
                 /\ ret.last_persist = ret.page_num - (ret.page_num % PersistEvery)

\* C30, witness: page 9 has been recorded after the saves at pages 5 (with a
\* document counted since); the file still holds page 5, four pages and a
\* document are in memory only
C30_Witness ==
    /\ ret.op = "page" /\ ret.page_num = 9 /\ ~ret.failed_ever
    /\ ret.last_persist = 5
    /\ st.checkpoint_data[1].processed_pages = 9
    /\ from_dict(checkpoint_file.data).processed_pages = 5
    /\ from_dict(checkpoint_file.data).processed_documents
         < st.checkpoint_data[1].processed_documents

\* ---------------------------------------------------------------------
\* BrowserPool and EnhancedBrowserManager.create_page
\* (src/browser/manager.py): tasks of one event loop take a browser from
\* the pool's queue, build a page on it and hand the browser back
\* ---------------------------------------------------------------------

MaxBrowsers == 2   \* largest general.concurrent_pages (pool size) tried
MaxCalls == 2      \* create_page calls of one task

\* the tasks that call create_page: two documents in flight at a time
Callers == {1, 2}
NoBrowser == 0

\* What the try block of create_page does: it returns the page, or one of
\* its awaits raises (new_context, new_page, page.route) or is cancelled
CreateOutcomes == {"page", "context_raises", "new_page_raises", "optimize_raises", "cancelled"}

\* page = await context.new_page() has been passed: the page exists when
\* create_page returns it and when _optimize_page (page.route) raises
new_page_done(outcome) == outcome \in {"page", "optimize_raises"}

\* BrowserPool.__init__: nothing launched, an empty queue
BrowserPool(max_browsers) == [max_browsers |-> max_browsers, browsers |-> <<>>, available_browsers |-> <<>>, initialized |-> FALSE]

\* BrowserPool.initialize: launch max_browsers browsers and queue each
initialize(pool) ==
    IF pool.initialized THEN pool
    ELSE [pool EXCEPT !.browsers = [i \in 1..pool.max_browsers |-> i],
                      !.available_browsers = [i \in 1..pool.max_browsers |-> i],
                      !.initialized = TRUE]

\* the finally clause dropped: the browser goes back only with a page
return_browser_on_success(pool, browser, outcome) == IF outcome = "page" THEN [pool EXCEPT !.available_browsers = Append(@, browser)] ELSE pool

\* finally: await self.browser_pool.return_browser(browser), whatever the
\* try block did
return_browser(pool, browser, outcome) == [pool EXCEPT !.available_browsers = Append(@, browser)]

IdleCaller == [pc |-> "idle", browser |-> NoBrowser, outcome |-> "none", calls |-> 0]

PoolInit ==
    /\ world = StoreWorld
    /\ run = 1
    /\ pc = "pool"
    /\ exit_kind = "none"
    /\ st = InitStore
    /\ checkpoint_file = Absent
    /\ summary_file = Absent
    /\ loc = InitLoc
    /\ ghost = InitGhost
    /\ tmp_file = Absent
    /\ wpc = "idle"
    /\ up = TRUE
    /\ \E n \in 1..MaxBrowsers :
         ret = [pool |-> BrowserPool(n), callers |-> [c \in Callers |-> IdleCaller],
                active_contexts |-> {}, open_pages |-> {}]

poolFrame == <<world, run, pc, exit_kind, st, checkpoint_file, summary_file, loc, ghost, tmp_file, wpc, up>>

\* EnhancedBrowserManager.__aenter__: browser_pool.initialize()
B_Enter ==
    /\ pc = "pool"
    /\ ~ret.pool.initialized
    /\ ret' = [ret EXCEPT !.pool = initialize(@)]
    /\ UNCHANGED poolFrame

\* A task calls create_page and reaches the await of get_browser
B_CreatePage(c) ==
    /\ pc = "pool"
    /\ ret.pool.initialized
    /\ ret.callers[c].pc = "idle"
    /\ ret.callers[c].calls < MaxCalls
    /\ ret' = [ret EXCEPT !.callers[c] = [pc |-> "get_browser", browser |-> NoBrowser, outcome |-> "none", calls |-> @.calls + 1]]
    /\ UNCHANGED poolFrame

\* BrowserPool.get_browser: available_browsers.get() hands over the head of
\* the queue; the task waits while the queue is empty
B_GetBrowser(c) ==
    /\ pc = "pool"
    /\ ret.callers[c].pc = "get_browser"
    /\ ret.pool.available_browsers # <<>>
    /\ ret' = [ret EXCEPT !.pool.available_browsers = Tail(@),
                          !.callers[c].browser = Head(ret.pool.available_browsers),
                          !.callers[c].pc = "try"]
    /\ UNCHANGED poolFrame

\* The task is cancelled while it waits in available_browsers.get(): it
\* took nothing
B_CancelWaiting(c) ==
    /\ pc = "pool"
    /\ ret.callers[c].pc = "get_browser"
    /\ ret' = [ret EXCEPT !.callers[c].pc = "idle", !.callers[c].outcome = "cancelled"]
    /\ UNCHANGED poolFrame

\* The try block: the context of the session is created or reused, the page
\* is created and optimized; any of the awaits may raise
B_Try(c) ==
    /\ pc = "pool"
    /\ ret.callers[c].pc = "try"
    /\ \E outcome \in CreateOutcomes :
        /\ outcome = "context_raises" => c \notin ret.active_contexts
        /\ ret' = [ret EXCEPT !.callers[c].pc = "finally",
                              !.callers[c].outcome = outcome,
                              !.active_contexts = IF outcome = "context_raises" THEN @ ELSE @ \cup {c},
                              !.open_pages = IF new_page_done(outcome)
                                             THEN @ \cup {<<c, ret.callers[c].calls>>} ELSE @]
    /\ UNCHANGED poolFrame

\* The finally clause, then create_page ends: it returns the page into the
\* try block of _process_single_document, or it raises and
\* _process_single_document raises with it (create_page is called before
\* the try)
B_Finally(c) ==
    /\ pc = "pool"
    /\ ret.callers[c].pc = "finally"
    /\ ret' = [ret EXCEPT !.pool = return_browser(@, ret.callers[c].browser, ret.callers[c].outcome),
                          !.callers[c].pc = IF ret.callers[c].outcome = "page" THEN "document" ELSE "idle",
                          !.callers[c].browser = NoBrowser]
    /\ UNCHANGED poolFrame

\* The try block of _process_single_document with the page: navigation,
\* PDF, parsing and saving go through, or one of them raises (or the task
\* is cancelled); either way the finally clause is next
B_Document(c) ==
    /\ pc = "pool"
    /\ ret.callers[c].pc = "document"
    /\ \E result \in {"saved", "raised"} :
         ret' = [ret EXCEPT !.callers[c].pc = "close", !.callers[c].outcome = result]
    /\ UNCHANGED poolFrame

\* finally: await page.close(); _process_single_document returns or raises
B_ClosePage(c) ==
    /\ pc = "pool"
    /\ ret.callers[c].pc = "close"
    /\ ret' = [ret EXCEPT !.callers[c].pc = "idle",
                          !.open_pages = @ \ {<<c, ret.callers[c].calls>>}]
    /\ UNCHANGED poolFrame

PoolNext ==
    \/ B_Enter
    \/ \E c \in Callers : B_CreatePage(c)
    \/ \E c \in Callers : B_GetBrowser(c)
    \/ \E c \in Callers : B_CancelWaiting(c)
    \/ \E c \in Callers : B_Try(c)
    \/ \E c \in Callers : B_Finally(c)
    \/ \E c \in Callers : B_Document(c)
    \/ \E c \in Callers : B_ClosePage(c)

SpecPool == PoolInit /\ [][PoolNext]_vars

HeldBrowsers == {ret.callers[c].browser : c \in {k \in Callers : ret.callers[k].browser # NoBrowser}}
PooledBrowsers == {ret.pool.available_browsers[i] : i \in DOMAIN ret.pool.available_browsers}

\* C31: Pool conservation.  Once the pool is initialized, the browsers in
\* the queue plus the browsers held by tasks inside create_page number the
\* configured pool size (each browser in exactly one place), and a task
\* that is not inside create_page holds none: what it took was put back,
\* whether create_page returned a page or raised.
C31_PoolConservation ==
    ret.pool.initialized =>
        /\ Len(ret.pool.available_browsers) + Cardinality({c \in Callers : ret.callers[c].browser # NoBrowser}) = ret.pool.max_browsers
        /\ Cardinality(PooledBrowsers) = Len(ret.pool.available_browsers)
        /\ Cardinality(HeldBrowsers) = Cardinality({c \in Callers : ret.callers[c].browser # NoBrowser})
        /\ PooledBrowsers \cap HeldBrowsers = {}
        /\ PooledBrowsers \cup HeldBrowsers = 1..ret.pool.max_browsers
        /\ \A c \in Callers : ret.callers[c].pc \in {"idle", "get_browser"} => ret.callers[c].browser = NoBrowser

\* C31, witness: a task's second create_page has raised after its first
\* returned a page, its browser is back in the queue, and the other task
\* holds the other browser meanwhile
C31_Witness ==
    /\ ret.pool.initialized /\ ret.pool.max_browsers = 2
    /\ \E a, b \in Callers :
         /\ ret.callers[a].pc = "idle" /\ ret.callers[a].outcome = "new_page_raises"
         /\ ret.callers[a].calls = 2 /\ a \in ret.active_contexts
         /\ ret.callers[b].pc = "try" /\ ret.callers[b].browser # NoBrowser
    /\ Len(ret.pool.available_browsers) = 1

\* C32: Resume only on request.  When start_scraping has initialized the
\* session of a run started without --resume, the session is fresh: zero
\* counters and an empty processed-ID set, whatever checkpoint an earlier
\* run left on disk.
C32_ResumeOnlyOnRequest ==
    (pc = "navigate" /\ ~ret.resume) =>
        /\ st.checkpoint_data[1].processed_documents = 0
        /\ st.checkpoint_data[1].processed_pages = 0
        /\ st.checkpoint_data[1].processed_doc_ids = {}

\* ---------------------------------------------------------------------
\* generate_sitemap (src/simple_sitemap.py): a breadth-first crawl of one
\* site.  A URL is the record urlparse makes of it (scheme, netloc, path
\* as its characters, fragment); the site answers each request with a
\* page and its anchors, with something that is not HTML, or not at all
\* ---------------------------------------------------------------------

MaxSitemapPages == 2   \* largest max_pages tried
MaxAnchors == 2        \* anchors of one page

ALLOWED_SCHEMES == {"http", "https"}

SitePaths == {<<>>, <<"/">>, <<"/", "/">>, <<"/", "a">>, <<"/", "a", "/">>, <<"/", "b">>}

Url(scheme, netloc, path, fragment) == [scheme |-> scheme, netloc |-> netloc, path |-> path, fragment |-> fragment]

\* str.rstrip("/")
RECURSIVE rstrip_slash(_)
rstrip_slash(path) == IF path # <<>> /\ path[Len(path)] = "/" THEN rstrip_slash(SubSeq(path, 1, Len(path) - 1)) ELSE path

\* _normalize_url: drop the fragment, default the scheme, "/" for an empty
\* path, and strip the trailing slashes of any path other than "/"
normalize_url(url) ==
    LET scheme == IF url.scheme = "" THEN "https" ELSE url.scheme
        path0 == IF url.path = <<>> THEN <<"/">> ELSE url.path
        path == IF path0 # <<"/">> /\ path0[Len(path0)] = "/" THEN rstrip_slash(path0) ELSE path0
    IN Url(scheme, url.netloc, path, "")

\* _prepare_start_url for a start URL that has a host: "https://" is put in
\* front of one without a scheme, then _normalize_url
prepare_start_url(url) == normalize_url([url EXCEPT !.scheme = IF @ = "" THEN "https" ELSE @])

\* The anchors of a page as urljoin(base_url, href) resolves them; an href
\* that is a bare fragment or a mailto: link is one _normalize_candidate_link
\* drops before resolving
Hrefs ==
    {Url("https", "h", p, "") : p \in SitePaths}
        \cup {Url("https", "h", <<"/", "a">>, "x"), Url("https", "other", <<"/", "a">>, ""),
              Url("ftp", "h", <<"/", "a">>, ""), Url("#", "", <<>>, "x"), Url("mailto", "", <<"a">>, "")}

\* the anchors one page can have
AnchorSets == UNION {{{f[i] : i \in 1..n} : f \in [1..n -> Hrefs]} : n \in 0..MaxAnchors}

NoLink == Url("none", "", <<>>, "")

\* _normalize_candidate_link(href, base_url, domain): NoLink is its None
normalize_candidate_link(href, domain) ==
    IF href.scheme \in {"#", "mailto"} THEN NoLink
    ELSE IF href.scheme \notin ALLOWED_SCHEMES \/ href.netloc = "" THEN NoLink
    ELSE IF href.netloc # domain THEN NoLink
    ELSE normalize_url(href)

\* _extract_links: the set of the normalised anchors that were kept
extract_links(anchors, domain) == {normalize_candidate_link(a, domain) : a \in anchors} \ {NoLink}

\* _process_page: (page_data, outgoing_links), or (None, set()) when the
\* request fails or the response is not HTML
Responses == {"html", "not_html", "request_exception"}
process_page(url, domain, response, anchors) ==
    IF response = "html"
    THEN [page_data |-> <<url>>, outgoing_links |-> extract_links(anchors, domain)]
    ELSE [page_data |-> <<>>, outgoing_links |-> {}]

\* the limit compared with > : one page more than max_pages is visited
limit_reached_late(visited, max_pages) == max_pages # None /\ Cardinality(visited) > max_pages

\* max_pages is not None and len(visited) >= max_pages
limit_reached(visited, max_pages) == max_pages # None /\ Cardinality(visited) >= max_pages

\* for link in outgoing_links: queue.append(link) unless visited or queued;
\* the set is walked in some order
RECURSIVE enqueue_links(_, _, _)
enqueue_links(queue, links, visited) ==
    IF links = <<>> THEN queue
    ELSE LET link == Head(links)
             queued == link \in {queue[i] : i \in DOMAIN queue}
         IN enqueue_links(IF link \notin visited /\ ~queued THEN Append(queue, link) ELSE queue, Tail(links), visited)

Orders(S) == {q \in UNION {[1..n -> S] : n \in {Cardinality(S)}} : {q[i] : i \in DOMAIN q} = S}

SitemapInit ==
    /\ world = StoreWorld
    /\ run = 1
    /\ pc = "while_queue"
    /\ exit_kind = "none"
    /\ st = InitStore
    /\ checkpoint_file = Absent
    /\ summary_file = Absent
    /\ loc = InitLoc
    /\ ghost = InitGhost
    /\ tmp_file = Absent
    /\ wpc = "idle"
    /\ up = TRUE
    /\ \E start_url \in {u \in Hrefs : u.netloc = "h"}, max_pages \in {None} \cup (0..MaxSitemapPages) :
         LET normalized_start == prepare_start_url(start_url)
         IN ret = [domain |-> normalized_start.netloc, max_pages |-> max_pages,
                   visited |-> {}, queue |-> <<normalized_start>>, pages |-> <<>>,
                   requested |-> <<>>, page_count |-> None, limit_break |-> FALSE]

sitemapFrame == <<world, run, exit_kind, st, checkpoint_file, summary_file, loc, ghost, tmp_file, wpc, up>>

\* One turn of the while loop that goes past the two checks: popleft; a URL
\* already visited is dropped (continue); otherwise visited.add,
\* _process_page (session.get), pages.append, the new links
M_VisitPage ==
    /\ pc = "while_queue"
    /\ ret.queue # <<>>
    /\ LET current_url == Head(ret.queue)
       IN IF current_url \in ret.visited
          THEN ret' = [ret EXCEPT !.queue = Tail(@)]
          ELSE /\ ~limit_reached(ret.visited, ret.max_pages)
               /\ \E response \in Responses, anchors \in AnchorSets :
                    /\ response # "html" => anchors = {}
                    /\ LET r == process_page(current_url, ret.domain, response, anchors)
                           visited == ret.visited \cup {current_url}
                       IN \E links \in Orders(r.outgoing_links) :
                            ret' = [ret EXCEPT
                                      !.visited = visited,
                                      !.requested = Append(@, current_url),
                                      !.pages = @ \o r.page_data,
                                      !.queue = IF r.page_data = <<>> THEN Tail(ret.queue)
                                                ELSE enqueue_links(Tail(ret.queue), links, visited)]
    /\ pc' = "while_queue"
    /\ UNCHANGED sitemapFrame

\* The loop ends, the queue empty or the limit reached at a URL not yet
\* visited (break), and the sitemap is returned with page_count = len(pages)
M_Return ==
    /\ pc = "while_queue"
    /\ \/ ret.queue = <<>>
       \/ /\ ret.queue # <<>>
          /\ Head(ret.queue) \notin ret.visited
          /\ limit_reached(ret.visited, ret.max_pages)
    /\ ret' = [ret EXCEPT !.page_count = Len(ret.pages),
                          !.limit_break = ret.queue # <<>>,
                          !.queue = IF @ = <<>> THEN @ ELSE Tail(@)]
    /\ pc' = "returned"
    /\ UNCHANGED sitemapFrame

SitemapNext ==
    \/ M_VisitPage
    \/ M_Return

SpecSitemap == SitemapInit /\ [][SitemapNext]_vars

\* C33: Sitemap page limit.  With max_pages = N, at most N pages are
\* visited (requested), at any moment of the crawl; and the page_count of
\* the returned sitemap, like the number of pages gathered so far, never
\* exceeds the number of pages visited.
C33_SitemapPageLimit ==
    /\ ret.max_pages # None =>
          /\ Len(ret.requested) <= ret.max_pages
          /\ Cardinality(ret.visited) <= ret.max_pages
    /\ Len(ret.pages) <= Len(ret.requested)
    /\ pc = "returned" => ret.page_count = Len(ret.pages) /\ ret.page_count <= Len(ret.requested)

\* C33, witness: the crawl stopped at the limit of 2 pages with a third
\* URL taken from the queue; one of the two pages visited gave no page data
C33_Witness ==
    /\ pc = "returned" /\ ret.max_pages = 2 /\ ret.limit_break
    /\ Len(ret.requested) = 2 /\ ret.page_count = 1

\* C40: Each URL once, and on the site.  No two requests of the crawl are
\* for the same normalised URL, and every requested URL has the host of the
\* start URL.
C40_EachUrlOnceOnSite ==
    /\ \A i, j \in DOMAIN ret.requested :
          i # j => normalize_url(ret.requested[i]) # normalize_url(ret.requested[j])
    /\ \A i \in DOMAIN ret.requested : ret.requested[i].netloc = ret.domain

\* C34: Unique metadata file per document.  Within a session, two distinct
\* documents that were dispatched never have the same sequence index
\* (doc_index names the metadata file and the error file of a document).
C34_UniqueIndexPerDocument ==
    \A i, j \in DOMAIN ghost.dispatched :
        ghost.dispatched[i] # ghost.dispatched[j] => ghost.doc_indexes[i] # ghost.doc_indexes[j]

\* C35: A ceiling of zero dispatches nothing.  With max_documents = 0 no
\* document is ever dispatched (0 is a ceiling, not "no limit").
C35_ZeroCeilingDispatchesNothing ==
    world.max_documents = 0 => ghost.dispatched = <<>>

\* C36: Recorded implies written.  Whenever a step of a running session
\* adds an identity to the checkpoint's processed-ID set, that step is a
\* save_document_metadata that wrote the document's metadata file and did
\* not raise: the file holds a record of that identity and is registered in
\* the dedup index under the hash of that record.  A save whose write failed
\* adds no identity.
C36_RecordedImpliesWritten ==
    [][(st.checkpoint_data # NoCheckpoint /\ st'.checkpoint_data # NoCheckpoint) =>
          \A id \in st'.checkpoint_data[1].processed_doc_ids \ st.checkpoint_data[1].processed_doc_ids :
              /\ ret'.op = "save" /\ ret'.wrote /\ ~ret'.raised
              /\ ret'.filename \in DOMAIN st'.metadata_dir
              /\ st'.metadata_dir[ret'.filename].doc_id = id
              /\ ret'.filename \in DOMAIN st'.hashes
              /\ st'.hashes[ret'.filename] = Hash(st'.metadata_dir[ret'.filename])]_vars

\* C36, witness: in a fresh session a save of document 1 failed (its error
\* file is there) and a later save wrote the file: only then the identity is
\* in the set, with the file and its hash in place
C36_Witness ==
    /\ st.checkpoint_data # NoCheckpoint
    /\ ret.op = "save" /\ ret.wrote
    /\ st.checkpoint_data[1].processed_doc_ids = {1}
    /\ st.checkpoint_data[1].processed_documents = 1
    /\ ErrorName(1) \in DOMAIN st.errors_dir
    /\ st.metadata_dir[ret.filename].doc_id = 1

C38_PagesAlwaysClosed ==
    \A p \in ret.open_pages :
        /\ ret.callers[p[1]].calls = p[2]
        /\ ret.callers[p[1]].pc \in {"try", "finally", "document", "close"}

\* ---------------------------------------------------------------------
\* The pagination loop of _process_listing_pages over a listing of
\* finitely many pages: the browser shows one page of the listing, each
\* page has one document link, the next-page control works on every page
\* but the last, and on the last page it is absent or disabled
\* ---------------------------------------------------------------------

MaxListingPages == 2   \* pages of the largest listing
MaxPasses == 4         \* passes of the while loop followed (more than any listing has pages)

WorkingControl == [found |-> TRUE, disabled |-> NoAttr, click |-> "ok", load |-> "ok"]

\* The next-page control of the last page: no element, disabled="disabled",
\* or the bare attribute
LastControls == {c \in NextControls : ~c.found \/ c.disabled.present}

Listings ==
    [n_pages : 1 .. MaxListingPages, last_control : LastControls,
     outcome : [1 .. MaxListingPages -> Outcomes],
     max_documents : {None, 1}, concurrent_pages : ConcurrentPagesValues]

\* what every next-page selector meets on the page the browser shows
ControlsOn(listing, shown) == [k \in 1 .. NumSelectors |-> IF shown < listing.n_pages THEN WorkingControl ELSE listing.last_control]

\* next_btn.click(): the working control of a page loads the page after
\* it; the click that a disabled control of the last page takes loads nothing
shown_after_click(listing, shown) == IF shown < listing.n_pages THEN shown + 1 ELSE shown

\* _process_document_batch for the one link of the page shown, in either
\* mode: the document is skipped when its ID is in the checkpoint; otherwise
\* it is processed, saved and counted, or its failure is recorded
batch_of_page(s, listing, shown, start_index, t) ==
    LET doc_link == StoreLink(shown)
        links == <<doc_link>>
    IN IF listing.concurrent_pages > 1
       THEN LET tasks == CreateTasks(s.checkpoint_data, links, start_index, listing.max_documents, 1, <<>>)
            IN IF tasks = <<>> THEN [s |-> s, processed_count |-> 0]
               ELSE LET r == process_single_document(s, doc_link, tasks[1].doc_index, listing.outcome[shown], t)
                    IN IF r.raised
                       THEN [s |-> save_error_info(r.s, start_index + 1, doc_link, r.error), processed_count |-> 0]
                       ELSE [s |-> r.s, processed_count |-> 1]
       ELSE LET r == SeqIter(s, links, start_index, listing.max_documents, 1, 0, listing.outcome[shown], t)
            IN [s |-> r.s, processed_count |-> r.processed_count]

CrawlInit ==
    /\ world \in Listings
    /\ run = 1
    /\ pc = "loop"
    /\ exit_kind = "none"
    /\ st = [InitStore EXCEPT !.checkpoint_data = <<FreshCheckpoint(SessionId(1))>>]
    /\ checkpoint_file = JsonFile(to_dict(FreshCheckpoint(SessionId(1))))
    /\ summary_file = Absent
    /\ loc = [InitLoc EXCEPT !.page_num = 1]
    /\ ghost = InitGhost
    /\ tmp_file = Absent
    /\ wpc = "idle"
    /\ up = TRUE
    /\ ret = [op |-> "none", shown |-> 1, shown_before |-> 1, leave |-> "go", processed_on_page |-> 0]

\* One pass of the while loop on the page the browser shows: the links,
\* the batch, update_page_progress, the ceiling test, _navigate_to_next_page
L_Pass ==
    /\ pc = "loop"
    /\ loc.page_num <= MaxPasses
    /\ LET b == batch_of_page(st, world, ret.shown, loc.total_processed, Clock)
           r == LoopBody(loc.page_num, loc.total_processed, world.max_documents, 1,
                         b.processed_count, ControlsOn(world, ret.shown))
           s1 == update_page_progress(b.s, loc.page_num, ret.shown)
       IN /\ st' = s1
          /\ checkpoint_file' = IF persist_due(loc.page_num)
                                THEN save_checkpoint(s1, checkpoint_file, DiskOk)
                                ELSE checkpoint_file
          /\ loc' = [loc EXCEPT !.page_num = r.page_num, !.total_processed = r.total_processed]
          /\ pc' = IF r.leave = "go" THEN "loop" ELSE "finalize"
          /\ ret' = [op |-> "pass", shown_before |-> ret.shown,
                     shown |-> IF r.leave = "go" THEN shown_after_click(world, ret.shown) ELSE ret.shown,
                     leave |-> r.leave, processed_on_page |-> b.processed_count]
    /\ UNCHANGED <<world, run, exit_kind, summary_file, ghost, tmp_file, wpc, up>>

\* _finalize_session: cleanup_session writes the checkpoint and the summary
L_Finalize ==
    /\ pc = "finalize"
    /\ LET c == cleanup_session(st, checkpoint_file, summary_file, DiskOk)
       IN /\ checkpoint_file' = c.file
          /\ summary_file' = c.summary
    /\ pc' = "done"
    /\ UNCHANGED <<world, run, exit_kind, st, loc, ghost, tmp_file, wpc, up, ret>>

CrawlNext ==
    \/ L_Pass
    \/ L_Finalize

SpecCrawl == CrawlInit /\ [][CrawlNext]_vars

\* C39: The crawl terminates.  Every pass of the pagination loop that does
\* not leave the loop moves the browser to a later page of the listing, so
\* a listing of n pages is left after at most n passes and the session goes
\* on to finalisation, in sequential and in parallel mode.
C39_CrawlTerminates ==
    /\ (ret.op = "pass" /\ ret.leave = "go") => ret.shown > ret.shown_before
    /\ loc.page_num <= world.n_pages

====
